---------------------------- MODULE Spec2Model ----------------------------
(* A model of terrance-teacher: the Ollama client, the Examiner (grader),  *)
(* the Teacher (lesson generator), the TeacherOrchestrator (coordinator)   *)
(* and the SQLite-backed MemoryRepository.  Text is modelled as TLA+       *)
(* strings; str.lower, str.strip, substring tests, the code-fence regexes  *)
(* and the JSON round trip are computed character by character.            *)
EXTENDS Integers, Sequences, FiniteSets, TLC

VARIABLES
    memory_repo,      \* the memory_repo the objects were constructed with
    lesson_attempts,  \* table lesson_attempts: sequence of rows, in id order
    weaknesses,       \* table weaknesses: function topic -> count
    table_info,       \* the columns of each table, none while it does not exist
    clock,            \* the wall clock save_attempt reads created_at from
    inp,              \* the arguments of the call under study
    call              \* the record of the last call: arguments and outcome

vars == <<memory_repo, lesson_attempts, weaknesses, table_info, clock, inp, call>>

-----------------------------------------------------------------------------
(* Bounds of the model.                                                    *)

\* an answer is the concatenation of at most MaxFrags fragments
MaxFrags == 2
\* rows the attempt log may hold in the store specification
MaxAttempts == 2
\* low attempts behind the weakness count the Teacher reads
MaxWeakness == 5
\* the highest weakness count written through the MemoryRepository directly
MaxCount == 2

-----------------------------------------------------------------------------
(* Text: Python str operations on TLA+ strings.                            *)

Chr(s, i) == SubSeq(s, i, i)

Max(S) == CHOOSE m \in S : \A x \in S : x <= m

\* the lower-case letter of each upper-case letter
LowerMap ==
    [A |-> "a", B |-> "b", C |-> "c", D |-> "d", E |-> "e", F |-> "f", G |-> "g",
     H |-> "h", I |-> "i", J |-> "j", K |-> "k", L |-> "l", M |-> "m", N |-> "n",
     O |-> "o", P |-> "p", Q |-> "q", R |-> "r", S |-> "s", T |-> "t", U |-> "u",
     V |-> "v", W |-> "w", X |-> "x", Y |-> "y", Z |-> "z"]

LowerChar(c) == IF c \in DOMAIN LowerMap THEN LowerMap[c] ELSE c

RECURSIVE Lower(_)
\* str.lower()
Lower(s) ==
    IF Len(s) = 0 THEN ""
    ELSE IF Len(s) = 1 THEN LowerChar(s)
    ELSE LET h == Len(s) \div 2
         IN  Lower(SubSeq(s, 1, h)) \o Lower(SubSeq(s, h + 1, Len(s)))

IsSpace(c) == c \in {" ", "\t", "\n", "\r", "\f"}

RECURSIVE SkipSpace(_, _)
\* first index at or after i that holds no whitespace (Len(s)+1 when none)
SkipSpace(s, i) ==
    IF i > Len(s) \/ ~IsSpace(Chr(s, i)) THEN i ELSE SkipSpace(s, i + 1)

RECURSIVE SkipSpaceBack(_, _)
\* last index at or before i that holds no whitespace (0 when none)
SkipSpaceBack(s, i) ==
    IF i < 1 \/ ~IsSpace(Chr(s, i)) THEN i ELSE SkipSpaceBack(s, i - 1)

\* str.strip(): the text between the first and the last non-whitespace character
Strip(s) ==
    IF SkipSpace(s, 1) > Len(s) THEN ""
    ELSE SubSeq(s, SkipSpace(s, 1), SkipSpaceBack(s, Len(s)))

\* the printable ASCII characters in code order (the backquote left out)
Ascii ==
    " !\"#$%&'()*+,-./0123456789:;<=>?@ABCDEFGHIJKLMNOPQRSTUVWXYZ[\\]^_abcdefghijklmnopqrstuvwxyz{|}~"

\* the place of a character in that order
Ord(c) == CHOOSE i \in 1..Len(Ascii) : Chr(Ascii, i) = c

RECURSIVE StrLessFrom(_, _, _)
StrLessFrom(a, b, i) ==
    IF i > Len(b) THEN FALSE
    ELSE IF i > Len(a) THEN TRUE
    ELSE IF Chr(a, i) = Chr(b, i) THEN StrLessFrom(a, b, i + 1)
    ELSE Ord(Chr(a, i)) < Ord(Chr(b, i))

\* a < b in SQLite's BINARY collation: byte by byte, a proper prefix first
StrLess(a, b) == StrLessFrom(a, b, 1)

\* the substring test kw in s
Contains(kw, s) ==
    \E i \in 0..(Len(s) - Len(kw)) : SubSeq(s, i + 1, i + Len(kw)) = kw

StartsAt(s, i, p) ==
    i >= 1 /\ i + Len(p) - 1 <= Len(s) /\ SubSeq(s, i, i + Len(p) - 1) = p

RECURSIVE Join(_, _)
\* sep.join(seq)
Join(seq, sep) ==
    IF seq = <<>> THEN ""
    ELSE IF Len(seq) = 1 THEN seq[1]
    ELSE seq[1] \o sep \o Join(Tail(seq), sep)

\* seq[:n]
Take(seq, n) == SubSeq(seq, 1, IF n < Len(seq) THEN n ELSE Len(seq))

Digits == "0123456789"

RECURSIVE NatToStr(_)
NatToStr(n) ==
    IF n < 10 THEN Chr(Digits, n + 1)
    ELSE NatToStr(n \div 10) \o Chr(Digits, (n % 10) + 1)

\* str(n) of an int, as an f-string and json.dumps print it
IntToStr(n) == IF n < 0 THEN "-" \o NatToStr(0 - n) ELSE NatToStr(n)

AtLineStart(s, i) == i = 1 \/ Chr(s, i - 1) = "\n"

\* the code-fence marker, three backquotes in the source: a TLA+ string cannot
\* hold a backquote, so the marker is written with tildes
Fence == "~~~"

Min(S) == CHOOSE m \in S : \A x \in S : m <= x

RECURSIVE SubOpenFence(_, _)
\* re.sub(r"^<fence>(?:json)?\s*\n?", "", s, flags=re.MULTILINE), from index i on:
\* each fence at the start of a line goes, with the whitespace after it
SubOpenFence(s, i) ==
    LET M == {m \in i..Len(s) : AtLineStart(s, m) /\ StartsAt(s, m, Fence)}
    IN  IF M = {} THEN SubSeq(s, i, Len(s))
        ELSE LET m == Min(M)
                 j == m + 3 + (IF StartsAt(s, m + 3, "json") THEN 4 ELSE 0)
             IN  SubSeq(s, i, m - 1) \o SubOpenFence(s, SkipSpace(s, j))

\* where a match of r"\n?<fence>\s*$" that starts at m ends (0: no match at m):
\* the whitespace run after the fence is taken as far as an end of line allows
CloseFenceEnd(s, m) ==
    LET f == IF Chr(s, m) = "\n" /\ StartsAt(s, m + 1, Fence) THEN m + 1
             ELSE IF StartsAt(s, m, Fence) THEN m
             ELSE 0
        j == f + 3
        e == SkipSpace(s, j)
        P == IF e = Len(s) + 1 THEN {e}
             ELSE {p \in j..(e - 1) : Chr(s, p) = "\n"}
    IN  IF f = 0 \/ P = {} THEN 0 ELSE Max(P)

RECURSIVE SubCloseFence(_, _)
\* re.sub(r"\n?<fence>\s*$", "", s, flags=re.MULTILINE), from index i on
SubCloseFence(s, i) ==
    LET M == {m \in i..Len(s) : CloseFenceEnd(s, m) # 0}
    IN  IF M = {} THEN SubSeq(s, i, Len(s))
        ELSE SubSeq(s, i, Min(M) - 1) \o SubCloseFence(s, CloseFenceEnd(s, Min(M)))

\* the "extract JSON from response" steps shared by Examiner and Teacher
ExtractJsonText(response) ==
    Strip(SubCloseFence(SubOpenFence(Strip(response), 1), 1))

-----------------------------------------------------------------------------
(* JSON.  A value inside an object is a scalar [t, s, n]: text, an int,    *)
(* null, or a nested list/object whose content is not looked at.  A        *)
(* document is [t, s, n, f], f the (key, value) pairs of an object in      *)
(* order.  json.dumps prints a document; json.loads is its inverse over    *)
(* the documents of the model and fails on every other text.               *)

JStr(s) == [t |-> "str", s |-> s, n |-> 0]

JInt(n) == [t |-> "int", s |-> "", n |-> n]

JNull == [t |-> "null", s |-> "", n |-> 0]

JList == [t |-> "list", s |-> "", n |-> 0]

JObject(pairs) == [t |-> "obj", s |-> "", n |-> 0, f |-> pairs]

JTop(v) == [t |-> v.t, s |-> v.s, n |-> v.n, f |-> <<>>]

RECURSIVE JsonEscape(_)
JsonEscape(s) ==
    IF Len(s) = 0 THEN ""
    ELSE IF Len(s) = 1
    THEN (IF s = "\"" THEN "\\\""
          ELSE IF s = "\\" THEN "\\\\"
          ELSE IF s = "\n" THEN "\\n"
          ELSE s)
    ELSE LET h == Len(s) \div 2
         IN  JsonEscape(SubSeq(s, 1, h)) \o JsonEscape(SubSeq(s, h + 1, Len(s)))

JsonDumpsScalar(v) ==
    CASE v.t = "str"  -> "\"" \o JsonEscape(v.s) \o "\""
      [] v.t = "int"  -> IntToStr(v.n)
      [] v.t = "null" -> "null"
      [] v.t = "list" -> "[]"
      [] OTHER        -> "{}"

JsonDumps(d) ==
    IF d.t = "obj"
    THEN "{" \o Join([i \in 1..Len(d.f) |->
                        "\"" \o d.f[i][1] \o "\": " \o JsonDumpsScalar(d.f[i][2])],
                     ", ") \o "}"
    ELSE JsonDumpsScalar(d)

HasKey(d, k) == d.t = "obj" /\ \E i \in 1..Len(d.f) : d.f[i][1] = k

\* d[k] of a parsed object that holds k
Field(d, k) == d.f[CHOOSE i \in 1..Len(d.f) : d.f[i][1] = k][2]

(* What the text-generation service may say: replies to the grading prompt *)
(* and to the lesson prompt, well formed and not.                          *)
GradeDoc ==
    JObject(<< <<"feedback", JStr("Solid.")>>, <<"score", JInt(88)>> >>)

GradeDocs ==
    { GradeDoc,
      JObject(<< <<"feedback", JStr("Solid.")>> >>),
      JObject(<< <<"feedback", JStr("Vague.")>>, <<"score", JNull>> >>),
      JObject(<< <<"feedback", JStr("Off.")>>, <<"score", JInt(150)>> >>),
      JObject(<< <<"feedback", JInt(5)>> >>),
      JTop(JList) }

LessonDoc ==
    JObject(<< <<"topic", JStr("llm")>>,
               <<"explanation", JStr("Why.")>>,
               <<"example", JStr("E.g.")>>,
               <<"question", JStr("How?")>>,
               <<"task", JStr("Try.")>> >>)

LessonDocs ==
    { LessonDoc,
      JObject(SubSeq(LessonDoc.f, 1, 4)),
      JObject(<< LessonDoc.f[1], <<"explanation", JInt(5)>>, LessonDoc.f[3],
                 LessonDoc.f[4], LessonDoc.f[5] >>) }

ReplyDocs == GradeDocs \cup LessonDocs

ReplyTexts ==
    {JsonDumps(d) : d \in ReplyDocs}
    \cup {Fence \o "json\n" \o JsonDumps(d) \o "\n" \o Fence : d \in {GradeDoc, LessonDoc}}
    \cup {"Not JSON"}

\* the values the response field of a body may hold
ResponseValues == {JStr(txt) : txt \in ReplyTexts} \cup {JInt(5), JNull}

BodyDocs ==
    {JObject(<< <<"model", JStr("llama3.2")>>, <<"response", v>> >>) :
        v \in ResponseValues}
    \cup {JObject(<< <<"error", JStr("model not found")>> >>), JTop(JList)}

JsonUniverse == ReplyDocs \cup BodyDocs

\* every document of the model beside its text
JsonTable == {<<JsonDumps(d), d>> : d \in JsonUniverse}

\* json.loads(text): [ok, val]; ok = FALSE stands for json.JSONDecodeError
JsonLoads(text) ==
    LET M == {p \in JsonTable : p[1] = text}
    IN  IF M = {} THEN [ok |-> FALSE, val |-> JTop(JNull)]
        ELSE [ok |-> TRUE, val |-> (CHOOSE p \in M : TRUE)[2]]

-----------------------------------------------------------------------------
(* llm/ollama.py: the outbound call.  A transport outcome is what urlopen  *)
(* and response.read() do: an exception, bytes that are not UTF-8, or a    *)
(* body text.                                                              *)

Transports ==
    {[k |-> x, body |-> ""] : x \in {"URLError", "HTTPError", "TimeoutError", "badutf8"}}
    \cup {[k |-> "ok", body |-> JsonDumps(d)] : d \in BodyDocs}
    \cup {[k |-> "ok", body |-> "not valid json"]}

NoneResult == [kind |-> "none", exc |-> "", val |-> JNull]

Raise(e) == [kind |-> "raise", exc |-> e, val |-> JNull]

\* OllamaClient.generate(prompt): None, the value of response, or an
\* exception that the except tuple does not name
generate(prompt, net) ==
    IF net.k \in {"URLError", "HTTPError", "TimeoutError"} THEN NoneResult
    ELSE IF net.k = "badutf8" THEN Raise("UnicodeDecodeError")
    ELSE LET response_data == JsonLoads(net.body)
         IN  IF ~response_data.ok THEN NoneResult
             ELSE IF response_data.val.t # "obj" THEN Raise("AttributeError")
             ELSE IF ~HasKey(response_data.val, "response") THEN NoneResult
             ELSE IF Field(response_data.val, "response").t = "null" THEN NoneResult
             ELSE [kind |-> "value", exc |-> "",
                   val |-> Field(response_data.val, "response")]

-----------------------------------------------------------------------------
(* core/models.py                                                          *)

Grade(score, feedback) == [score |-> score, feedback |-> feedback]

NoGrade == [score |-> -1, feedback |-> ""]

\* an LlmGrade, or None (present = FALSE); score is a JSON int or null
NoLlmGrade == [present |-> FALSE, feedback |-> "", score |-> JNull]

\* LlmGrade.model_validate(data): feedback a str, score an int, null or absent
LlmGrade_model_validate(data) ==
    IF /\ data.t = "obj"
       /\ HasKey(data, "feedback")
       /\ Field(data, "feedback").t = "str"
       /\ (HasKey(data, "score") => Field(data, "score").t \in {"int", "null"})
    THEN [present |-> TRUE,
          feedback |-> Field(data, "feedback").s,
          score |-> IF HasKey(data, "score") THEN Field(data, "score") ELSE JNull]
    ELSE NoLlmGrade

-----------------------------------------------------------------------------
(* core/examiner.py                                                        *)

topic_keywords ==
    [tokens |-> <<"truncation", "context limit", "constraint", "context window",
                  "token limit">>,
     tokenization |-> <<"truncation", "context limit", "constraint",
                        "context window", "token limit">>,
     temperature |-> <<"temperature", "sampling", "randomness", "deterministic",
                       "top-p", "nucleus", "entropy">>,
     prompting |-> <<"system prompt", "instructions", "constraints", "few-shot",
                     "zero-shot", "role", "persona">>,
     rag |-> <<"retrieval", "embeddings", "vector database", "vector store",
               "context injection", "chunks", "chunking", "citation", "grounding">>,
     hallucinations |-> <<"hallucination", "fabricate", "grounding",
                          "verification", "confidence", "retrieval">>,
     agents |-> <<"agent", "tool use", "tools", "planning", "loop", "iteration",
                  "memory", "reflection">>]

InSeq(x, seq) == \E i \in 1..Len(seq) : seq[i] = x

\* Examiner._grade_deterministic
grade_deterministic(topic_lower, answer_lower) ==
    IF topic_lower \notin DOMAIN topic_keywords
    THEN Grade(50, "Grading for '" \o topic_lower \o "' is not yet implemented. "
                   \o "This is a placeholder grade. "
                   \o "In future versions, answers will be evaluated using LLM-based grading.")
    ELSE LET keywords == topic_keywords[topic_lower]
             found_keywords == SelectSeq(keywords, LAMBDA kw : Contains(kw, answer_lower))
             num_found == Len(found_keywords)
         IN  IF num_found >= 2
             THEN Grade(85, "Excellent! You identified multiple key concepts: "
                            \o Join(found_keywords, ", ") \o ". "
                            \o "Your understanding of " \o topic_lower
                            \o " demonstrates good grasp of the core principles.")
             ELSE IF num_found = 1
             THEN LET missing == SelectSeq(Take(keywords, 3),
                                           LAMBDA kw : ~InSeq(kw, found_keywords))
                      suggestions == Join(Take(missing, 2), ", ")
                  IN  Grade(65, "Good start! You mentioned '" \o found_keywords[1]
                                \o "', which is relevant. "
                                \o "To improve, consider discussing: " \o suggestions \o ".")
             ELSE Grade(35, "Your answer touches on " \o topic_lower
                            \o " but misses key concepts. "
                            \o "Consider discussing: " \o Join(Take(keywords, 2), ", ") \o ".")

\* deterministic_grade with the answer matched as typed, not lower-cased
deterministic_grade_as_typed(topic, answer) ==
    IF Strip(answer) = ""
    THEN Grade(10, "Your answer is empty. Please provide a response to be graded.")
    ELSE grade_deterministic(Lower(topic), answer)

\* deterministic_grade that takes only the empty string for an empty answer
deterministic_grade_unstripped(topic, answer) ==
    IF answer = ""
    THEN Grade(10, "Your answer is empty. Please provide a response to be graded.")
    ELSE grade_deterministic(Lower(topic), Lower(answer))

\* deterministic_grade that scores a topic without a rubric as a failure
deterministic_grade_unknown_fails(topic, answer) ==
    IF Strip(answer) = ""
    THEN Grade(10, "Your answer is empty. Please provide a response to be graded.")
    ELSE IF Lower(topic) \notin DOMAIN topic_keywords
    THEN Grade(0, "Unknown topic '" \o topic \o "'.")
    ELSE grade_deterministic(Lower(topic), Lower(answer))

\* Examiner.grade_answer, lines 21-32: the deterministic Grade
deterministic_grade(topic, answer) ==
    IF Strip(answer) = ""
    THEN Grade(10, "Your answer is empty. Please provide a response to be graded.")
    ELSE grade_deterministic(Lower(topic), Lower(answer))

\* the grading prompt without the deterministic score and feedback
grading_prompt_without_grade(topic, answer, grade) ==
    "Grade this answer on '" \o topic
    \o "' for an experienced engineer learning LLM systems.\n\n"
    \o "Student answer: \"" \o answer \o "\"\n\n"
    \o "Provide qualitative feedback as an experienced teacher would. Output ONLY valid JSON:\n"
    \o "No markdown. JSON only."

grading_prompt(topic, answer, grade) ==
    "Grade this answer on '" \o topic
    \o "' for an experienced engineer learning LLM systems.\n\n"
    \o "Student answer: \"" \o answer \o "\"\n\n"
    \o "Deterministic grade: " \o IntToStr(grade.score) \o "/100\n"
    \o "Deterministic feedback: " \o grade.feedback \o "\n\n"
    \o "Provide qualitative feedback as an experienced teacher would. Output ONLY valid JSON:\n"
    \o "- feedback: detailed qualitative feedback (2-3 sentences)\n"
    \o "- score: optional integer 0-100 (your assessment, not required)\n\n"
    \o "No markdown. JSON only."

\* Examiner.grade_answer, lines 54-67: the reply turned into an LlmGrade, None,
\* or the AttributeError of .strip() on a reply that is not a str
parse_llm_grade(ollama_response) ==
    IF ollama_response.kind = "raise" THEN ollama_response
    ELSE IF ollama_response.kind = "none"
    THEN [kind |-> "value", exc |-> "", val |-> NoLlmGrade]
    ELSE IF ollama_response.val.t # "str" THEN Raise("AttributeError")
    ELSE LET data == JsonLoads(ExtractJsonText(ollama_response.val.s))
         IN  [kind |-> "value", exc |-> "",
              val |-> IF data.ok THEN LlmGrade_model_validate(data.val)
                      ELSE NoLlmGrade]

\* Examiner_augment that lets the score of the reply replace the Grade's
Examiner_augment_blended(grade, prompt, net) ==
    LET llm == parse_llm_grade(generate(prompt, net))
        blended == IF llm.kind = "value" /\ llm.val.present /\ llm.val.score.t = "int"
                   THEN Grade(llm.val.score.n, grade.feedback)
                   ELSE grade
    IN  [outcome |-> IF llm.kind = "raise" THEN "raised" ELSE "returned",
         exc |-> llm.exc,
         grade |-> blended,
         llm_grade |-> IF llm.kind = "raise" THEN NoLlmGrade ELSE llm.val,
         prompts |-> <<prompt>>]

\* Examiner.grade_answer, lines 50-69: the request made, the reply parsed,
\* and how the call ended, given the Grade and the prompt of lines 21-48
Examiner_augment(grade, prompt, net) ==
    LET llm == parse_llm_grade(generate(prompt, net))
    IN  [outcome |-> IF llm.kind = "raise" THEN "raised" ELSE "returned",
         exc |-> llm.exc,
         grade |-> grade,
         llm_grade |-> IF llm.kind = "raise" THEN NoLlmGrade ELSE llm.val,
         prompts |-> <<prompt>>]

\* Examiner.grade_answer(topic, answer) with the service behaving as net
Examiner_grade_answer(topic, answer, net) ==
    LET grade == deterministic_grade(topic, answer)
    IN  Examiner_augment(grade, grading_prompt(topic, answer, grade), net)

-----------------------------------------------------------------------------
(* core/teacher.py                                                         *)

Lesson(topic, explanation, example, question, task) ==
    [topic |-> topic, explanation |-> explanation, example |-> example,
     question |-> question, task |-> task]

NoLesson == Lesson("", "", "", "", "")

LessonFields == {"topic", "explanation", "example", "question", "task"}

\* Lesson.model_validate(data): the five fields are there and are str
Lesson_model_validate(data) ==
    /\ data.t = "obj"
    /\ \A k \in LessonFields : HasKey(data, k) /\ Field(data, k).t = "str"

\* Teacher._lessons: the authored lessons, keyed by lower-case topic.  The
\* source text holds two non-ASCII signs, written here -> and ~=
Teacher_lessons ==
    [tokens |->
        Lesson("tokens",
               "Tokens are the fundamental units that LLMs process. A token is roughly 0.75 words "
               \o "on average, but can be as short as a character or as long as a word. When you send "
               \o "text to an LLM, it's first tokenized (split into tokens) using a tokenizer specific "
               \o "to that model. Understanding tokens is critical because:\n"
               \o "- Context windows are measured in tokens, not words\n"
               \o "- Pricing is often per token (input + output)\n"
               \o "- Tokenization affects prompt engineering (some words become multiple tokens)\n"
               \o "- Different models have different tokenizers (GPT-4 vs Claude vs Llama)",
               "Consider the phrase 'Hello, world!'\n"
               \o "- GPT-4 tokenizer: ['Hello', ',', ' world', '!'] -> 4 tokens\n"
               \o "- Some tokenizers might split 'Hello' into ['Hel', 'lo'] -> 5 tokens\n"
               \o "- Token counts vary by model and language\n\n"
               \o "In practice, you can estimate: 1 token ~= 4 characters for English text, "
               \o "but always use the model's tokenizer for accurate counts.",
               "Why does the same text produce different token counts across models, "
               \o "and how does this impact prompt engineering strategies?",
               "Write a Python function that estimates token count for a given string using "
               \o "the rule of thumb (1 token ~= 4 characters). Then, use the tiktoken library "
               \o "to get the actual token count for GPT-4. Compare the results for the text: "
               \o "'The quick brown fox jumps over the lazy dog.'")]

lesson_prompt(topic) ==
    "Generate a lesson on '" \o topic
    \o "' for experienced engineers learning LLM systems.\n\n"
    \o "Output ONLY valid JSON with these exact fields:\n"
    \o "- topic\n"
    \o "- explanation (2-3 paragraphs)\n"
    \o "- example (concrete example or scenario)\n"
    \o "- question (check-for-understanding)\n"
    \o "- task (hands-on task)\n\n"
    \o "No markdown. No extra text. JSON only."

\* _build_fallback_lesson with two tiers: every count above 1 is Advanced
build_fallback_lesson_two_tiers(topic, weakness_count) ==
    IF weakness_count <= 1
    THEN Lesson(topic, "[Beginner] Lesson on '" \o topic \o "' is not yet available.",
                "A simple example.", "What is it?", "Research it.")
    ELSE Lesson(topic, "[Advanced] Lesson on '" \o topic \o "' is not yet available. "
                       \o "This advanced-level content delves into the deeper implications.",
                "An advanced example.", "How would you design it?", "Design it.")

\* _build_fallback_lesson with one explanation, whatever the tier
build_fallback_lesson_one_text(topic, weakness_count) ==
    Lesson(topic,
           (IF weakness_count <= 1 THEN "[Beginner    ]"
            ELSE IF weakness_count \in {2, 3} THEN "[Intermediate]" ELSE "[Advanced    ]")
           \o " Lesson on '" \o topic \o "' is not yet available. This is a placeholder lesson.",
           "An example.", "What is it?", "Research it.")

\* Teacher._build_fallback_lesson
build_fallback_lesson(topic, weakness_count) ==
    IF weakness_count <= 1
    THEN Lesson(topic,
                "[Beginner] Lesson on '" \o topic
                \o "' is not yet available. This is a placeholder lesson. "
                \o "'" \o topic \o "' is an important concept in LLM systems. "
                \o "In future versions, lessons will be generated dynamically using LLMs. "
                \o "For now, this provides a basic introduction to get you started.",
                "A simple example of '" \o topic \o "' would demonstrate the core concept. "
                \o "Example content will be generated when this lesson is fully implemented.",
                "What is the basic definition of '" \o topic \o "'? "
                \o "This question will be customized in future versions.",
                "Research '" \o topic
                \o "' independently and write a brief summary (1-2 paragraphs). "
                \o "In future versions, you'll receive structured tasks and automated grading.")
    ELSE IF weakness_count \in {2, 3}
    THEN Lesson(topic,
                "[Intermediate] Lesson on '" \o topic
                \o "' is not yet available. This is a placeholder lesson. "
                \o "'" \o topic \o "' is a nuanced concept in LLM systems that requires "
                \o "understanding of tradeoffs and edge cases. "
                \o "In future versions, lessons will be generated dynamically using LLMs. "
                \o "This intermediate-level content explores the concept more deeply, including considerations "
                \o "of when and how to apply it effectively, as well as potential limitations.",
                "An intermediate example of '" \o topic
                \o "' would illustrate both the benefits and tradeoffs. "
                \o "For instance, you might see how it works in ideal conditions, but also encounter "
                \o "edge cases where it fails or requires careful handling. "
                \o "Example content will be generated when this lesson is fully implemented.",
                "How does '" \o topic
                \o "' interact with other LLM concepts, and what are the key tradeoffs? "
                \o "This question requires reasoning about relationships and implications.",
                "Research '" \o topic
                \o "' and create a short analysis: (1) Define the concept, "
                \o "(2) Identify one key tradeoff or limitation, (3) Propose a scenario where it would be most effective. "
                \o "In future versions, you'll receive structured tasks and automated grading.")
    ELSE Lesson(topic,
                "[Advanced] Lesson on '" \o topic
                \o "' is not yet available. This is a placeholder lesson. "
                \o "'" \o topic \o "' is a complex concept in LLM systems that requires systems thinking and "
                \o "understanding of failure modes, operational constraints, and production considerations. "
                \o "In future versions, lessons will be generated dynamically using LLMs. "
                \o "This advanced-level content delves into the deeper implications, including how it fits "
                \o "into larger system architectures, what can go wrong in production, and how to design "
                \o "robust implementations that account for real-world constraints and edge cases.",
                "An advanced example of '" \o topic
                \o "' would demonstrate failure modes and operational considerations. "
                \o "This might include: how it behaves under load, what happens when assumptions break down, "
                \o "how to monitor and detect issues, and how to design for resilience. "
                \o "Example content will be generated when this lesson is fully implemented.",
                "How would you design a production system that uses '" \o topic
                \o "' while accounting for "
                \o "failure modes, scalability constraints, and operational observability? "
                \o "This question requires systems thinking about real-world deployment.",
                "Design and document a production-ready approach to '" \o topic \o "': "
                \o "(1) Design the architecture and data flow, (2) Identify potential failure modes and mitigation strategies, "
                \o "(3) Implement a proof-of-concept or detailed design, (4) Define metrics and observability requirements. "
                \o "In future versions, you'll receive structured tasks and automated grading.")

\* MemoryRepository.get_weakness_count(topic): the row's count, 0 without a row
get_weakness_count(weak, topic) ==
    IF topic \in DOMAIN weak THEN weak[topic] ELSE 0

\* the reply turned into a Lesson that keeps the topic the reply names
parse_lesson_reply_topic(response, topic) ==
    IF response.kind = "raise"
    THEN [kind |-> "raise", exc |-> response.exc, val |-> NoLesson]
    ELSE IF response.kind = "none"
    THEN [kind |-> "none", exc |-> "", val |-> NoLesson]
    ELSE IF response.val.t # "str"
    THEN [kind |-> "raise", exc |-> "AttributeError", val |-> NoLesson]
    ELSE LET data == JsonLoads(ExtractJsonText(response.val.s))
         IN  IF data.ok /\ Lesson_model_validate(data.val)
             THEN [kind |-> "value", exc |-> "",
                   val |-> Lesson(Field(data.val, "topic").s,
                                  Field(data.val, "explanation").s,
                                  Field(data.val, "example").s,
                                  Field(data.val, "question").s,
                                  Field(data.val, "task").s)]
             ELSE [kind |-> "none", exc |-> "", val |-> NoLesson]

\* Teacher.generate_lesson, lines 73-90: the reply turned into a Lesson
\* (kind "value"), nothing ("none": fall through to the fallback), or the
\* AttributeError of .strip() on a reply that is not a str
parse_lesson(response, topic) ==
    IF response.kind = "raise"
    THEN [kind |-> "raise", exc |-> response.exc, val |-> NoLesson]
    ELSE IF response.kind = "none"
    THEN [kind |-> "none", exc |-> "", val |-> NoLesson]
    ELSE IF response.val.t # "str"
    THEN [kind |-> "raise", exc |-> "AttributeError", val |-> NoLesson]
    ELSE LET data == JsonLoads(ExtractJsonText(response.val.s))
         IN  IF data.ok /\ Lesson_model_validate(data.val)
             THEN [kind |-> "value", exc |-> "",
                   val |-> Lesson(topic,
                                  Field(data.val, "explanation").s,
                                  Field(data.val, "example").s,
                                  Field(data.val, "question").s,
                                  Field(data.val, "task").s)]
             ELSE [kind |-> "none", exc |-> "", val |-> NoLesson]

\* generate_lesson that reads the weakness count before it sends the request
Teacher_generate_lesson_reads_first(topic, net, repo, weak) ==
    IF Lower(topic) \in DOMAIN Teacher_lessons
    THEN [outcome |-> "returned", exc |-> "",
          lesson |-> Teacher_lessons[Lower(topic)], prompts |-> <<>>, reads |-> <<>>]
    ELSE LET prompt == lesson_prompt(topic)
             parsed == parse_lesson(generate(prompt, net), topic)
             weakness_count ==
                 IF repo # "None" THEN get_weakness_count(weak, topic) ELSE 0
         IN  [outcome |-> IF parsed.kind = "raise" THEN "raised" ELSE "returned",
              exc |-> parsed.exc,
              lesson |-> IF parsed.kind = "value" THEN parsed.val
                         ELSE IF parsed.kind = "none"
                         THEN build_fallback_lesson(topic, weakness_count)
                         ELSE NoLesson,
              prompts |-> <<prompt>>,
              reads |-> IF repo # "None" THEN <<"get_weakness_count">> ELSE <<>>]

\* Teacher(memory_repo=repo, ollama_client).generate_lesson(topic) with the
\* service behaving as net and the weaknesses table holding weak; prompts
\* lists the requests sent and reads the queries put to the store
Teacher_generate_lesson(topic, net, repo, weak) ==
    IF Lower(topic) \in DOMAIN Teacher_lessons
    THEN [outcome |-> "returned", exc |-> "",
          lesson |-> Teacher_lessons[Lower(topic)], prompts |-> <<>>, reads |-> <<>>]
    ELSE LET prompt == lesson_prompt(topic)
             parsed == parse_lesson(generate(prompt, net), topic)
             weakness_count ==
                 IF repo # "None" THEN get_weakness_count(weak, topic) ELSE 0
         IN  [outcome |-> IF parsed.kind = "raise" THEN "raised" ELSE "returned",
              exc |-> parsed.exc,
              lesson |-> IF parsed.kind = "value" THEN parsed.val
                         ELSE IF parsed.kind = "none"
                         THEN build_fallback_lesson(topic, weakness_count)
                         ELSE NoLesson,
              prompts |-> <<prompt>>,
              reads |-> IF parsed.kind = "none" /\ repo # "None"
                        THEN <<"get_weakness_count">> ELSE <<>>]

-----------------------------------------------------------------------------
(* memory/repo.py: the two tables.  A row of lesson_attempts is a record;  *)
(* its nullable columns llm_feedback and llm_score hold a JSON scalar,     *)
(* JNull for NULL.  weaknesses is a function from topic to count.          *)

\* the text is a non-empty run of decimal digits
IsDigits(s) ==
    Len(s) > 0 /\ \A i \in 1..Len(s) : \E d \in 1..10 : Chr(Digits, d) = Chr(s, i)

RECURSIVE StrToNat(_)
StrToNat(s) ==
    IF Len(s) = 0 THEN 0
    ELSE StrToNat(SubSeq(s, 1, Len(s) - 1)) * 10
         + (CHOOSE d \in 0..9 : Chr(Digits, d + 1) = Chr(s, Len(s)))

\* what a column of the given affinity holds after a Python value is bound
\* to it: None is NULL; a TEXT column turns an int into its decimal text;
\* an INTEGER column turns a text of digits into the int and keeps other text
sqlite_store(v, affinity) ==
    IF v.t = "null" THEN JNull
    ELSE IF affinity = "TEXT"
    THEN (IF v.t = "int" THEN JStr(IntToStr(v.n)) ELSE v)
    ELSE (IF v.t = "str" /\ IsDigits(v.s) THEN JInt(StrToNat(v.s)) ELSE v)

\* save_attempt that writes every row under the id 1
save_attempt_same_id(attempts, topic, answer, score, feedback, created_at, llm_feedback, llm_score) ==
    Append(attempts,
           [id |-> 1, topic |-> topic, answer |-> answer,
            score |-> score, feedback |-> feedback, created_at |-> created_at,
            llm_feedback |-> llm_feedback, llm_score |-> llm_score])

\* MemoryRepository.save_attempt: one row more, id the next rowid
save_attempt(attempts, topic, answer, score, feedback, created_at, llm_feedback, llm_score) ==
    Append(attempts,
           [id |-> Len(attempts) + 1, topic |-> topic, answer |-> answer,
            score |-> score, feedback |-> feedback, created_at |-> created_at,
            llm_feedback |-> sqlite_store(llm_feedback, "TEXT"),
            llm_score |-> sqlite_store(llm_score, "INTEGER")])

\* increment_weakness as an insert-or-ignore: the count stays at 1
increment_weakness_once(weak, topic) ==
    IF topic \in DOMAIN weak THEN weak ELSE weak @@ (topic :> 1)

\* increment_weakness that creates the row with count 0
increment_weakness_from_zero(weak, topic) ==
    IF topic \in DOMAIN weak
    THEN [weak EXCEPT ![topic] = @ + 1]
    ELSE weak @@ (topic :> 0)

\* increment_weakness as an insert-or-replace: the count goes back to 1
increment_weakness_replaced(weak, topic) ==
    [t \in DOMAIN weak \cup {topic} |-> IF t = topic THEN 1 ELSE weak[t]]

\* MemoryRepository.increment_weakness: count + 1, or a new row with count 1
increment_weakness(weak, topic) ==
    IF topic \in DOMAIN weak
    THEN [weak EXCEPT ![topic] = @ + 1]
    ELSE weak @@ (topic :> 1)

\* get_top_weak_topic with ties broken by descending topic name
get_top_weak_topic_descending(weak) ==
    IF DOMAIN weak = {} THEN JNull
    ELSE JStr(CHOOSE t \in DOMAIN weak : \A u \in DOMAIN weak \ {t} :
                 \/ weak[u] < weak[t]
                 \/ weak[u] = weak[t] /\ StrLess(t, u) = FALSE)

\* MemoryRepository.get_top_weak_topic: the first row by count DESC, topic
\* ASC, or None (JNull) when the table is empty
get_top_weak_topic(weak) ==
    IF DOMAIN weak = {} THEN JNull
    ELSE JStr(CHOOSE t \in DOMAIN weak : \A u \in DOMAIN weak \ {t} :
                 \/ weak[u] < weak[t]
                 \/ weak[u] = weak[t] /\ StrLess(t, u))

\* MemoryRepository.get_last_attempt_topic: ORDER BY created_at DESC LIMIT 1
\* names no second key, so among rows of the greatest created_at the row
\* returned is any of them; the set of the values the call may return
get_last_attempt_topic(attempts) ==
    IF attempts = <<>> THEN {JNull}
    ELSE {JStr(attempts[i].topic) :
             i \in {j \in 1..Len(attempts) :
                       \A k \in 1..Len(attempts) :
                          attempts[k].created_at <= attempts[j].created_at}}

\* the rows of the greatest created_at, by index
LatestRows(attempts) ==
    {j \in 1..Len(attempts) :
        \A k \in 1..Len(attempts) : attempts[k].created_at <= attempts[j].created_at}

\* MemoryRepository.get_last_attempt_llm_feedback: llm_feedback of a row of
\* the greatest created_at (the query names no second key), None when the
\* column is NULL or holds the empty text; the set of the values the call may
\* return
get_last_attempt_llm_feedback(attempts) ==
    IF attempts = <<>> THEN {JNull}
    ELSE {IF attempts[i].llm_feedback.t = "str" /\ attempts[i].llm_feedback.s # ""
          THEN attempts[i].llm_feedback ELSE JNull : i \in LatestRows(attempts)}

\* get_history, lines 146-154: the dict made of a row
history_entry(row) ==
    [topic |-> row.topic, score |-> row.score, created_at |-> row.created_at,
     has_llm_feedback |-> row.llm_feedback.t # "null" /\ Strip(row.llm_feedback.s) # ""]

\* row i comes before row j in ORDER BY created_at DESC, id DESC
HistoryBefore(attempts, i, j) ==
    \/ attempts[i].created_at > attempts[j].created_at
    \/ attempts[i].created_at = attempts[j].created_at /\ attempts[i].id > attempts[j].id

RECURSIVE history_rows(_, _, _)
\* the rows of left in that order, cut after limit rows (a negative limit
\* cuts nothing)
history_rows(attempts, left, limit) ==
    IF limit = 0 \/ left = {} THEN <<>>
    ELSE LET first == CHOOSE i \in left :
                         \A j \in left \ {i} : HistoryBefore(attempts, i, j)
         IN  <<history_entry(attempts[first])>>
             \o history_rows(attempts, left \ {first}, limit - 1)

\* get_history without the second key: rows of one created_at in id order
get_history_no_id_key(attempts, limit) ==
    LET Before(i, j) ==
            \/ attempts[i].created_at > attempts[j].created_at
            \/ attempts[i].created_at = attempts[j].created_at /\ i < j
        order == [k \in 1..Len(attempts) |->
                    CHOOSE i \in 1..Len(attempts) :
                       Cardinality({j \in 1..Len(attempts) : Before(j, i)}) = k - 1]
        n == IF limit < 0 \/ limit > Len(attempts) THEN Len(attempts) ELSE limit
    IN  [k \in 1..n |->
            [topic |-> attempts[order[k]].topic, score |-> attempts[order[k]].score,
             created_at |-> attempts[order[k]].created_at,
             has_llm_feedback |-> attempts[order[k]].llm_feedback.t # "null"
                                  /\ Strip(attempts[order[k]].llm_feedback.s) # ""]]

\* MemoryRepository.get_history(limit)
get_history(attempts, limit) == history_rows(attempts, 1..Len(attempts), limit)

RECURSIVE SumScores(_)
\* SUM(score) over the rows
SumScores(attempts) ==
    IF attempts = <<>> THEN 0 ELSE attempts[1].score + SumScores(Tail(attempts))

\* AVG(score) as float(row[1]), 0.0 over no row: the quotient num / den
AverageScore(attempts) ==
    IF attempts = <<>> THEN [num |-> 0, den |-> 1]
    ELSE [num |-> SumScores(attempts), den |-> Len(attempts)]

RECURSIVE sqlite_trim(_)
\* SQLite TRIM(X): the spaces at both ends removed
sqlite_trim(s) ==
    IF s = "" THEN ""
    ELSE IF Chr(s, 1) = " " THEN sqlite_trim(SubSeq(s, 2, Len(s)))
    ELSE IF Chr(s, Len(s)) = " " THEN sqlite_trim(SubSeq(s, 1, Len(s) - 1))
    ELSE s

\* MemoryRepository.get_topic_summary(topic): over the rows WHERE topic = ?,
\* their number and average score, created_at and score of the first in
\* ORDER BY created_at DESC, id DESC, the share of rows whose llm_feedback is
\* not NULL and not blank, and the weakness count
get_topic_summary(attempts, weak, topic) ==
    LET rows == SelectSeq(attempts, LAMBDA row : row.topic = topic)
        total_attempts == Len(rows)
        last == history_rows(rows, 1..Len(rows), 1)
        llm_feedback_count ==
            Len(SelectSeq(rows, LAMBDA row : /\ row.llm_feedback # JNull
                                             /\ sqlite_trim(row.llm_feedback.s) # ""))
    IN  [topic |-> topic,
         total_attempts |-> total_attempts,
         average_score |-> AverageScore(rows),
         last_attempt_at |-> IF last = <<>> THEN JNull ELSE JInt(last[1].created_at),
         last_score |-> IF last = <<>> THEN JNull ELSE JInt(last[1].score),
         weakness_count |-> IF topic \in DOMAIN weak THEN weak[topic] ELSE 0,
         llm_feedback_rate |-> IF total_attempts > 0
                               THEN [num |-> llm_feedback_count, den |-> total_attempts]
                               ELSE [num |-> 0, den |-> 1]]

RECURSIVE weakest_orders(_, _, _)
\* SELECT topic, count FROM weaknesses ORDER BY count DESC LIMIT limit over
\* the rows of left: the query names no second key, so rows of one count
\* come in any order; the set of the lists the query may return
weakest_orders(weak, left, limit) ==
    IF limit = 0 \/ left = {} THEN {<<>>}
    ELSE UNION {{<<(<<t, weak[t]>>)>> \o rest : rest \in weakest_orders(weak, left \ {t}, limit - 1)} :
                   t \in {u \in left : \A v \in left : weak[v] <= weak[u]}}

\* get_status_summary with the weakest topics in ascending order of count
get_status_summary_ascending(attempts, weak) ==
    LET RECURSIVE asc(_, _)
        asc(left, limit) ==
            IF limit = 0 \/ left = {} THEN <<>>
            ELSE LET t == CHOOSE u \in left : \A v \in left \ {u} :
                              weak[u] < weak[v] \/ (weak[u] = weak[v] /\ StrLess(u, v))
                 IN  <<(<<t, weak[t]>>)>> \o asc(left \ {t}, limit - 1)
    IN  {[total_attempts |-> Len(attempts),
          average_score |-> IF attempts = <<>> THEN [num |-> 0, den |-> 1]
                            ELSE [num |-> SumScores(attempts), den |-> Len(attempts)],
          weakest_topics |-> asc(DOMAIN weak, 5)]}

\* MemoryRepository.get_status_summary: the set of the dicts it may return
get_status_summary(attempts, weak) ==
    {[total_attempts |-> Len(attempts),
      average_score |-> AverageScore(attempts),
      weakest_topics |-> w] : w \in weakest_orders(weak, DOMAIN weak, 5)}

-----------------------------------------------------------------------------
(* core/orchestrator.py                                                    *)

\* TeacherOrchestrator._lessons: the same text as Teacher._lessons
TeacherOrchestrator_lessons == Teacher_lessons

\* TeacherOrchestrator.generate_lesson(topic)
TeacherOrchestrator_generate_lesson(topic) ==
    IF Lower(topic) \in DOMAIN TeacherOrchestrator_lessons
    THEN TeacherOrchestrator_lessons[Lower(topic)]
    ELSE Lesson(topic,
                "Lesson on '" \o topic
                \o "' is not yet available. This is a placeholder lesson. "
                \o "In future versions, lessons will be generated dynamically using LLMs.",
                "Example content will be generated when this lesson is fully implemented.",
                "What would you like to learn about '" \o topic \o "'? "
                \o "This question will be customized in future versions.",
                "Research '" \o topic \o "' independently and document your findings. "
                \o "In future versions, you'll receive structured tasks and automated grading.")

orchestrator_keywords ==
    <<"truncation", "context limit", "constraint", "context window", "token limit">>

\* a grade of 50 points for each rubric phrase found, with no upper limit
TeacherOrchestrator_grade_unlimited(topic, answer) ==
    Grade(50 * Len(SelectSeq(orchestrator_keywords, LAMBDA kw : Contains(kw, Lower(answer)))),
          "Scored by the number of key concepts found.")

\* TeacherOrchestrator.grade_answer, lines 67-113: the Grade it computes
TeacherOrchestrator_grade(topic, answer) ==
    LET topic_lower == Lower(topic)
        answer_lower == Lower(answer)
        found_keywords ==
            SelectSeq(orchestrator_keywords, LAMBDA kw : Contains(kw, answer_lower))
        num_found == Len(found_keywords)
    IN  IF topic_lower \in {"tokens", "tokenization"}
        THEN IF num_found >= 2
             THEN Grade(85, "Excellent! You identified multiple key concepts: "
                            \o Join(found_keywords, ", ") \o ". "
                            \o "You understand that different tokenizers affect context windows and can cause truncation, "
                            \o "which directly impacts prompt engineering strategies.")
             ELSE IF num_found = 1
             THEN Grade(65, "Good start! You mentioned '" \o found_keywords[1]
                            \o "', which is relevant. "
                            \o "To improve, consider discussing how tokenization differences across models affect "
                            \o "context window limits and can lead to truncation or constraint loss.")
             ELSE Grade(35, "Your answer touches on tokenization but misses key impacts. Consider discussing: "
                            \o "how different tokenizers affect context window limits, the risk of truncation "
                            \o "when text exceeds limits, and how this constrains prompt engineering strategies.")
        ELSE Grade(50, "Grading for '" \o topic
                       \o "' is not yet implemented. This is a placeholder grade. "
                       \o "In future versions, answers will be evaluated using LLM-based grading.")

\* the fixed ordered curriculum: the first entry "tokens", "temperature"
\* after it, "agents" the last
Curriculum ==
    <<"tokens", "temperature", "prompting", "rag", "hallucinations", "agents">>

\* the index of a topic in the curriculum, 0 when it is absent
CurriculumIndex(topic) ==
    IF \E i \in 1..Len(Curriculum) : Curriculum[i] = topic
    THEN CHOOSE i \in 1..Len(Curriculum) : Curriculum[i] = topic
    ELSE 0

\* TeacherOrchestrator.recommend_next_topic: top is what get_top_weak_topic
\* returned and last what get_last_attempt_topic returned; reads lists the
\* queries put to the store
recommend_next_topic(repo, top, last) ==
    IF repo = "None"
    THEN [next_topic |-> Curriculum[1], reads |-> <<>>]
    ELSE IF top # JNull
    THEN [next_topic |-> top.s, reads |-> <<"get_top_weak_topic">>]
    ELSE [next_topic |-> IF last = JNull \/ CurriculumIndex(Lower(last.s)) = 0
                         THEN Curriculum[1]
                         ELSE Curriculum[(CurriculumIndex(Lower(last.s)) % Len(Curriculum)) + 1],
          reads |-> <<"get_top_weak_topic", "get_last_attempt_topic">>]

-----------------------------------------------------------------------------
(* The calls.  call records the last call: its arguments, how the service  *)
(* behaved (or would have behaved) during it, and what it computed.        *)

NoTransport == [k |-> "", body |-> ""]

NoCall ==
    [op |-> "", topic |-> "", answer |-> "", net |-> NoTransport,
     outcome |-> "", exc |-> "", response |-> NoneResult,
     grade |-> NoGrade, llm_grade |-> NoLlmGrade,
     lesson |-> NoLesson, prompts |-> <<>>,
     next_topic |-> "", reads |-> <<>>,
     llm_feedback |-> JNull, llm_score |-> JNull, limit |-> 0, result |-> JNull]

\* topics put to the Examiner and the Teacher: the rubric topics, other
\* casings of them, topics without a rubric
Topics ==
    {"tokens", "tokenization", "temperature", "prompting", "rag",
     "hallucinations", "agents", "RAG", "Tokens", "math", ""}

\* pieces of answers: a rubric phrase in another casing, the halves of a
\* phrase, whitespace
Fragments == {" ", "Truncation", "context", " window"}

FixedAnswers ==
    {"", " \n\t ",
     "Temperature controls randomness in sampling.",
     "System prompts help guide model behavior.",
     "Use embeddings in a vector store to retrieve relevant chunks.",
     "Models fabricate; use verification.",
     "An agentic loop",
     "constraints",
     "Retrieval with GROUNDING",
     "Some generic answer"}

RECURSIVE Concats(_)
\* the concatenations of exactly n fragments
Concats(n) ==
    IF n = 0 THEN {""} ELSE {a \o b : a \in Concats(n - 1), b \in Fragments}

Answers == FixedAnswers \cup UNION {Concats(n) : n \in 0..MaxFrags}

\* the service answering HTTP 200 with text as the response field
Reply(text) ==
    [k |-> "ok",
     body |-> JsonDumps(JObject(<< <<"model", JStr("llama3.2")>>,
                                   <<"response", JStr(text)>> >>))]

\* what the service does while the TeacherOrchestrator is called: it is
\* unreachable, it replies a grade, it replies a lesson
StoreTransports ==
    {[k |-> "URLError", body |-> ""], Reply(JsonDumps(GradeDoc)),
     Reply(JsonDumps(LessonDoc))}

StoreTopics == {"tokens", "Tokens", "rag"}

StoreAnswers == {"Truncation at the context window", "no idea"}

\* OllamaClient().generate(lesson_prompt(inp.topic))
OllamaGenerate ==
    /\ \E net \in Transports :
       \E r \in {generate(lesson_prompt(inp.topic), net)} :
          call' = [NoCall EXCEPT !.op = "OllamaClient.generate",
                                 !.topic = inp.topic,
                                 !.net = net,
                                 !.outcome = IF r.kind = "raise" THEN "raised"
                                             ELSE "returned",
                                 !.exc = r.exc,
                                 !.response = r,
                                 !.prompts = <<lesson_prompt(inp.topic)>>]
    /\ UNCHANGED <<memory_repo, table_info, lesson_attempts, weaknesses, clock, inp>>

\* Examiner(ollama_client).grade_answer(inp.topic, inp.answer)
ExaminerGradeAnswer ==
    /\ \E grade \in {deterministic_grade(inp.topic, inp.answer)} :
       \E prompt \in {grading_prompt(inp.topic, inp.answer, grade)} :
       \E net \in Transports :
       \E r \in {Examiner_augment(grade, prompt, net)} :
          call' = [NoCall EXCEPT !.op = "Examiner.grade_answer",
                                 !.topic = inp.topic,
                                 !.answer = inp.answer,
                                 !.net = net,
                                 !.outcome = r.outcome,
                                 !.exc = r.exc,
                                 !.grade = r.grade,
                                 !.llm_grade = r.llm_grade,
                                 !.prompts = r.prompts]
    /\ UNCHANGED <<memory_repo, table_info, lesson_attempts, weaknesses, clock, inp>>

\* Teacher(memory_repo, ollama_client).generate_lesson(inp.topic)
TeacherGenerateLesson ==
    /\ \E net \in Transports :
       \E r \in {Teacher_generate_lesson(inp.topic, net, memory_repo, weaknesses)} :
          call' = [NoCall EXCEPT !.op = "Teacher.generate_lesson",
                                 !.topic = inp.topic,
                                 !.net = net,
                                 !.outcome = r.outcome,
                                 !.exc = r.exc,
                                 !.lesson = r.lesson,
                                 !.prompts = r.prompts,
                                 !.reads = r.reads]
    /\ UNCHANGED <<memory_repo, table_info, lesson_attempts, weaknesses, clock, inp>>

\* TeacherOrchestrator(memory_repo).generate_lesson(topic); this
\* TeacherOrchestrator sends no request, whatever the service would do
OrchGenerateLesson ==
    /\ \E topic \in StoreTopics, net \in StoreTransports :
          call' = [NoCall EXCEPT !.op = "TeacherOrchestrator.generate_lesson",
                                 !.topic = topic,
                                 !.net = net,
                                 !.outcome = "returned",
                                 !.lesson = TeacherOrchestrator_generate_lesson(topic)]
    /\ UNCHANGED <<memory_repo, table_info, lesson_attempts, weaknesses, clock, inp>>

\* TeacherOrchestrator(memory_repo).grade_answer(topic, answer): the Grade,
\* then lines 115-121: with a repository, save_attempt stamped with the clock
\* (which has advanced since the last row, or has not) and, when the score is
\* below 70, increment_weakness
OrchGradeAnswer ==
    /\ memory_repo # "None" => Len(lesson_attempts) < MaxAttempts
    /\ \E topic \in StoreTopics, answer \in StoreAnswers, net \in StoreTransports :
       \E grade \in {TeacherOrchestrator_grade(topic, answer)} :
          /\ IF memory_repo # "None"
             THEN /\ clock' \in {clock, clock + 1}
                  /\ lesson_attempts' =
                        save_attempt(lesson_attempts, topic, answer, grade.score,
                                     grade.feedback, clock', JNull, JNull)
                  /\ weaknesses' = IF grade.score < 70
                                   THEN increment_weakness(weaknesses, topic)
                                   ELSE weaknesses
             ELSE UNCHANGED <<lesson_attempts, weaknesses, clock>>
          /\ call' = [NoCall EXCEPT !.op = "TeacherOrchestrator.grade_answer",
                                    !.topic = topic,
                                    !.answer = answer,
                                    !.net = net,
                                    !.outcome = "returned",
                                    !.grade = grade]
    /\ UNCHANGED <<memory_repo, table_info, inp>>

\* topics whose weakness count is raised through the MemoryRepository
WeakTopics == {"rag", "prompting", "tokens", "Tokens"}

\* topics of the attempts saved through the MemoryRepository
AttemptTopics == {"tokens", "Agents", "math"}

\* MemoryRepository.save_attempt(topic, "answer1", 80, "feedback1")
RepoSaveAttempt ==
    /\ memory_repo # "None"
    /\ Len(lesson_attempts) < MaxAttempts
    /\ \E topic \in AttemptTopics :
          /\ clock' \in {clock, clock + 1}
          /\ lesson_attempts' = save_attempt(lesson_attempts, topic, "answer1", 80, "feedback1", clock', JNull, JNull)
          /\ call' = [NoCall EXCEPT !.op = "MemoryRepository.save_attempt", !.topic = topic]
    /\ UNCHANGED <<memory_repo, table_info, weaknesses, inp>>

\* MemoryRepository.increment_weakness(topic)
RepoIncrementWeakness ==
    /\ memory_repo # "None"
    /\ \E topic \in WeakTopics :
          /\ get_weakness_count(weaknesses, topic) < MaxCount
          /\ weaknesses' = increment_weakness(weaknesses, topic)
          /\ call' = [NoCall EXCEPT !.op = "MemoryRepository.increment_weakness", !.topic = topic]
    /\ UNCHANGED <<memory_repo, table_info, lesson_attempts, clock, inp>>

\* TeacherOrchestrator.recommend_next_topic()
OrchRecommendNextTopic ==
    /\ \E top \in {get_top_weak_topic(weaknesses)}, last \in get_last_attempt_topic(lesson_attempts) :
       \E r \in {recommend_next_topic(memory_repo, top, last)} :
          call' = [NoCall EXCEPT !.op = "TeacherOrchestrator.recommend_next_topic", !.outcome = "returned", !.next_topic = r.next_topic, !.reads = r.reads]
    /\ UNCHANGED <<memory_repo, table_info, lesson_attempts, weaknesses, clock, inp>>

\* the attempts saved through the MemoryRepository with augmented fields:
\* none, empty text with score 0, text with a score, blank text without one
AttemptInputs ==
    {[topic |-> "tokens", score |-> 80, llm_feedback |-> JNull, llm_score |-> JNull],
     [topic |-> "tokens", score |-> 35, llm_feedback |-> JStr(""), llm_score |-> JInt(0)],
     [topic |-> "rag", score |-> 35, llm_feedback |-> JStr("Solid."), llm_score |-> JInt(88)],
     [topic |-> "rag", score |-> 80, llm_feedback |-> JStr("  "), llm_score |-> JNull]}

\* the limits put to get_history
HistoryLimits == 0..(MaxAttempts + 1)

\* MemoryRepository.save_attempt(topic, "answer1", score, "feedback1", llm_feedback, llm_score)
StoreSaveAttempt ==
    /\ memory_repo # "None"
    /\ Len(lesson_attempts) < MaxAttempts
    /\ \E a \in AttemptInputs :
          /\ clock' \in {clock, clock + 1}
          /\ lesson_attempts' = save_attempt(lesson_attempts, a.topic, "answer1", a.score, "feedback1", clock', a.llm_feedback, a.llm_score)
          /\ call' = [NoCall EXCEPT !.op = "MemoryRepository.save_attempt", !.topic = a.topic, !.llm_feedback = a.llm_feedback, !.llm_score = a.llm_score]
    /\ UNCHANGED <<memory_repo, table_info, weaknesses, inp>>

\* MemoryRepository.get_history(limit)
GetHistory ==
    /\ memory_repo # "None"
    /\ \E limit \in HistoryLimits :
          call' = [NoCall EXCEPT !.op = "MemoryRepository.get_history", !.limit = limit, !.result = get_history(lesson_attempts, limit)]
    /\ UNCHANGED <<memory_repo, table_info, lesson_attempts, weaknesses, clock, inp>>

\* MemoryRepository.get_last_attempt_topic()
GetLastAttemptTopic ==
    /\ memory_repo # "None"
    /\ \E last \in get_last_attempt_topic(lesson_attempts) :
          call' = [NoCall EXCEPT !.op = "MemoryRepository.get_last_attempt_topic", !.result = last]
    /\ UNCHANGED <<memory_repo, table_info, lesson_attempts, weaknesses, clock, inp>>

\* MemoryRepository.get_last_attempt_llm_feedback()
GetLastAttemptLlmFeedback ==
    /\ memory_repo # "None"
    /\ \E last \in get_last_attempt_llm_feedback(lesson_attempts) :
          call' = [NoCall EXCEPT !.op = "MemoryRepository.get_last_attempt_llm_feedback", !.result = last]
    /\ UNCHANGED <<memory_repo, table_info, lesson_attempts, weaknesses, clock, inp>>

\* the attempts saved before a status summary: a low and a high score
StatusInputs ==
    {[topic |-> "tokens", score |-> 35], [topic |-> "tokens", score |-> 80]}

\* topics whose weakness count is raised before a status summary: one more
\* than a summary lists
StatusTopics == {"agents", "hallucinations", "prompting", "rag", "temperature", "tokens"}

\* MemoryRepository.save_attempt(topic, "answer1", score, "feedback1")
StatusSaveAttempt ==
    /\ memory_repo # "None"
    /\ Len(lesson_attempts) < MaxAttempts
    /\ \E a \in StatusInputs :
          /\ clock' \in {clock, clock + 1}
          /\ lesson_attempts' = save_attempt(lesson_attempts, a.topic, "answer1", a.score, "feedback1", clock', JNull, JNull)
          /\ call' = [NoCall EXCEPT !.op = "MemoryRepository.save_attempt", !.topic = a.topic]
    /\ UNCHANGED <<memory_repo, table_info, weaknesses, inp>>

\* MemoryRepository.increment_weakness(topic): "tokens" up to MaxCount times,
\* every other topic once
StatusIncrementWeakness ==
    /\ memory_repo # "None"
    /\ \E topic \in StatusTopics :
          /\ get_weakness_count(weaknesses, topic) < (IF topic = "tokens" THEN MaxCount ELSE 1)
          /\ weaknesses' = increment_weakness(weaknesses, topic)
          /\ call' = [NoCall EXCEPT !.op = "MemoryRepository.increment_weakness", !.topic = topic]
    /\ UNCHANGED <<memory_repo, table_info, lesson_attempts, clock, inp>>

\* MemoryRepository.get_status_summary(), called after a write or on the
\* fresh store (a second call in a row reads the same store again)
GetStatusSummary ==
    /\ memory_repo # "None"
    /\ call.op # "MemoryRepository.get_status_summary"
    /\ \E summary \in get_status_summary(lesson_attempts, weaknesses) :
          call' = [NoCall EXCEPT !.op = "MemoryRepository.get_status_summary", !.result = summary]
    /\ UNCHANGED <<memory_repo, table_info, lesson_attempts, weaknesses, clock, inp>>

\* Teacher(memory_repo, ollama_client).generate_lesson(topic) over the store
StoreTeacherGenerateLesson ==
    /\ \E topic \in StoreTopics, net \in StoreTransports :
       \E r \in {Teacher_generate_lesson(topic, net, memory_repo, weaknesses)} :
          call' = [NoCall EXCEPT !.op = "Teacher.generate_lesson",
                                 !.topic = topic,
                                 !.net = net,
                                 !.outcome = r.outcome,
                                 !.exc = r.exc,
                                 !.lesson = r.lesson,
                                 !.prompts = r.prompts,
                                 !.reads = r.reads]
    /\ UNCHANGED <<memory_repo, table_info, lesson_attempts, weaknesses, clock, inp>>

\* MemoryRepository.get_topic_summary(topic)
GetTopicSummary ==
    /\ memory_repo # "None"
    /\ \E topic \in StoreTopics :
          call' = [NoCall EXCEPT !.op = "MemoryRepository.get_topic_summary", !.topic = topic, !.result = get_topic_summary(lesson_attempts, weaknesses, topic)]
    /\ UNCHANGED <<memory_repo, table_info, lesson_attempts, weaknesses, clock, inp>>

\* get_weakness_count as a get-or-create: a topic without a row gets one
GetWeaknessCount_creates_row ==
    /\ memory_repo # "None"
    /\ \E topic \in StoreTopics :
          /\ weaknesses' = IF topic \in DOMAIN weaknesses THEN weaknesses
                           ELSE weaknesses @@ (topic :> 0)
          /\ call' = [NoCall EXCEPT !.op = "MemoryRepository.get_weakness_count", !.topic = topic, !.result = JInt(IF topic \in DOMAIN weaknesses THEN weaknesses[topic] ELSE 0)]
    /\ UNCHANGED <<memory_repo, table_info, lesson_attempts, clock, inp>>

\* MemoryRepository.get_weakness_count(topic)
GetWeaknessCount ==
    /\ memory_repo # "None"
    /\ \E topic \in StoreTopics :
          call' = [NoCall EXCEPT !.op = "MemoryRepository.get_weakness_count", !.topic = topic, !.result = JInt(get_weakness_count(weaknesses, topic))]
    /\ UNCHANGED <<memory_repo, table_info, lesson_attempts, weaknesses, clock, inp>>

\* MemoryRepository.get_top_weak_topic()
GetTopWeakTopic ==
    /\ memory_repo # "None"
    /\ call' = [NoCall EXCEPT !.op = "MemoryRepository.get_top_weak_topic", !.result = get_top_weak_topic(weaknesses)]
    /\ UNCHANGED <<memory_repo, table_info, lesson_attempts, weaknesses, clock, inp>>

-----------------------------------------------------------------------------
(* The specifications.                                                     *)

\* db.py: the columns init_db creates table lesson_attempts with
LessonAttemptsColumns ==
    <<"id", "topic", "answer", "score", "feedback", "created_at", "llm_feedback", "llm_score">>

\* db.py: the columns init_db creates table weaknesses with
WeaknessesColumns == <<"topic", "count">>

\* PRAGMA table_info of a table that does not exist: no rows
NoTable == <<>>

\* the database file of a store
Database(info, attempts, weak) ==
    [table_info |-> info, lesson_attempts |-> attempts, weaknesses |-> weak]

\* Python's "x in list"
InList(x, list) == \E i \in 1..Len(list) : list[i] = x

\* CREATE TABLE IF NOT EXISTS: a table that exists is left as it is
create_table_if_not_exists(db, table, columns) ==
    IF db.table_info[table] # NoTable
    THEN db
    ELSE [db EXCEPT !.table_info[table] = columns]

\* ALTER TABLE lesson_attempts ADD COLUMN: the column comes last and every
\* row there is reads NULL in it
add_column(db, column) ==
    LET rows == db.lesson_attempts
        widened(row) ==
            [c \in DOMAIN row \cup {column} |-> IF c \in DOMAIN row THEN row[c] ELSE JNull]
    IN  [db EXCEPT !.table_info["lesson_attempts"] = Append(@, column),
                   !.lesson_attempts = [i \in 1..Len(rows) |-> widened(rows[i])]]

\* init_db that drops an old table lesson_attempts and creates it anew
init_db_recreate(db) ==
    LET columns == db.table_info["lesson_attempts"]
        complete == InList("llm_feedback", columns) /\ InList("llm_score", columns)
    IN  [table_info |-> [lesson_attempts |-> LessonAttemptsColumns,
                         weaknesses |-> WeaknessesColumns],
         lesson_attempts |-> IF complete THEN db.lesson_attempts ELSE <<>>,
         weaknesses |-> db.weaknesses,
         columns |-> IF columns = NoTable THEN LessonAttemptsColumns ELSE columns]

\* init_db: both tables created if they do not exist, then the columns of
\* lesson_attempts read once and each llm column added if it is not among them
init_db(db) ==
    LET created == create_table_if_not_exists(
                       create_table_if_not_exists(db, "lesson_attempts", LessonAttemptsColumns),
                       "weaknesses", WeaknessesColumns)
        columns == created.table_info["lesson_attempts"]
        with_feedback == IF ~InList("llm_feedback", columns)
                         THEN add_column(created, "llm_feedback")
                         ELSE created
        with_score == IF ~InList("llm_score", columns)
                      THEN add_column(with_feedback, "llm_score")
                      ELSE with_feedback
    IN  [table_info |-> with_score.table_info,
         lesson_attempts |-> with_score.lesson_attempts,
         weaknesses |-> with_score.weaknesses,
         columns |-> columns]

\* MemoryRepository(): the constructor runs init_db on the database file
InitDb ==
    /\ \E db \in {init_db(Database(table_info, lesson_attempts, weaknesses))} :
          /\ table_info' = db.table_info
          /\ lesson_attempts' = db.lesson_attempts
          /\ weaknesses' = db.weaknesses
          /\ call' = [NoCall EXCEPT !.op = "init_db", !.result = db.columns]
    /\ memory_repo' = "repo"
    /\ UNCHANGED <<clock, inp>>

NoInput == [topic |-> "", answer |-> ""]

\* the store MemoryRepository() leaves on a new file: both tables, no rows
InitStore ==
    /\ lesson_attempts = <<>>
    /\ weaknesses = <<>>
    /\ table_info = [lesson_attempts |-> LessonAttemptsColumns,
                     weaknesses |-> WeaknessesColumns]
    /\ clock = 0

RECURSIVE LowAttempts(_, _)
\* the store after n low-scoring gradings of topic by the TeacherOrchestrator
LowAttempts(topic, n) ==
    IF n = 0 THEN [attempts |-> <<>>, weak |-> <<>>]
    ELSE LET before == LowAttempts(topic, n - 1)
             grade == TeacherOrchestrator_grade(topic, "no idea")
         IN  [attempts |-> save_attempt(before.attempts, topic, "no idea", grade.score,
                                        grade.feedback, n, JNull, JNull),
              weak |-> increment_weakness(before.weak, topic)]

InitOllama ==
    /\ memory_repo = "None"
    /\ InitStore
    /\ inp \in [topic : Topics, answer : {""}]
    /\ call = NoCall

NextOllama == OllamaGenerate

\* OllamaClient.generate called, any number of times, with one prompt
SpecOllama == InitOllama /\ [][NextOllama]_vars

InitExaminer ==
    /\ memory_repo = "None"
    /\ InitStore
    /\ inp \in [topic : Topics, answer : Answers]
    /\ call = NoCall

NextExaminer == ExaminerGradeAnswer

\* the Examiner called, any number of times, on one (topic, answer)
SpecExaminer == InitExaminer /\ [][NextExaminer]_vars

InitTeacher ==
    /\ inp \in [topic : Topics, answer : {""}]
    /\ \E n \in 0..MaxWeakness :
          \/ /\ memory_repo = "repo"
             /\ lesson_attempts = LowAttempts(inp.topic, n).attempts
             /\ weaknesses = LowAttempts(inp.topic, n).weak
             /\ table_info = [lesson_attempts |-> LessonAttemptsColumns,
                              weaknesses |-> WeaknessesColumns]
             /\ clock = n
          \/ /\ n = 0
             /\ memory_repo = "None"
             /\ InitStore
    /\ call = NoCall

NextTeacher == TeacherGenerateLesson

\* the Teacher called, any number of times, on one topic, over a store that
\* holds up to MaxWeakness low attempts on it
SpecTeacher == InitTeacher /\ [][NextTeacher]_vars

Init ==
    /\ memory_repo \in {"None", "repo"}
    /\ InitStore
    /\ inp = NoInput
    /\ call = NoCall

Next == OrchGenerateLesson \/ OrchGradeAnswer

\* the TeacherOrchestrator over a fresh store, or over none
Spec == Init /\ [][Next]_vars

NextRecommend == RepoSaveAttempt \/ RepoIncrementWeakness \/ OrchRecommendNextTopic

\* the MemoryRepository written to directly and the TeacherOrchestrator asked
\* for the next topic, over a fresh store or over none
SpecRecommend == Init /\ [][NextRecommend]_vars

InitAttached ==
    /\ memory_repo = "repo"
    /\ InitStore
    /\ inp = NoInput
    /\ call = NoCall

NextStore ==
    \/ StoreSaveAttempt
    \/ GetHistory
    \/ GetLastAttemptTopic
    \/ GetLastAttemptLlmFeedback

\* attempts saved through the MemoryRepository and read back by its queries
SpecStore == InitAttached /\ [][NextStore]_vars

NextStatus == StatusSaveAttempt \/ StatusIncrementWeakness \/ GetStatusSummary

\* attempts and weaknesses written through the MemoryRepository and summed
\* up by get_status_summary
SpecStatus == InitAttached /\ [][NextStatus]_vars

\* the columns lesson_attempts had before the llm columns were added
OldColumns == <<"id", "topic", "answer", "score", "feedback", "created_at">>

\* the column lists of lesson_attempts in a database file: the table not yet
\* created, created before the llm columns, with one of them, or with both
StoredColumns ==
    {NoTable, OldColumns, Append(OldColumns, "llm_feedback"),
     Append(OldColumns, "llm_score"), LessonAttemptsColumns}

RECURSIVE saved_attempts(_)
\* the rows save_attempt writes for a list of arguments
saved_attempts(inputs) ==
    IF inputs = <<>> THEN <<>>
    ELSE LET before == saved_attempts(Take(inputs, Len(inputs) - 1))
             a == inputs[Len(inputs)]
         IN  save_attempt(before, a.topic, "answer1", a.score, "feedback1", Len(inputs),
                          a.llm_feedback, a.llm_score)

\* the rows as a table of the given columns holds them
stored_rows(rows, columns) ==
    [i \in 1..Len(rows) |-> [c \in {columns[k] : k \in 1..Len(columns)} |-> rows[i][c]]]

\* the attempts a database file holds
StoredAttempts ==
    UNION {[1..n -> AttemptInputs] : n \in 0..MaxAttempts}

\* the weaknesses a database file holds
StoredWeaknesses ==
    {<<>>, "tokens" :> 1, ("tokens" :> 2) @@ ("rag" :> 1)}

\* a database file as an earlier run left it, before MemoryRepository()
InitSchema ==
    /\ memory_repo = "None"
    /\ \E columns \in StoredColumns, inputs \in StoredAttempts, weak \in StoredWeaknesses :
          /\ columns = NoTable => inputs = <<>>
          /\ lesson_attempts = stored_rows(saved_attempts(inputs), columns)
          /\ \/ /\ weaknesses = weak
                /\ table_info = [lesson_attempts |-> columns, weaknesses |-> WeaknessesColumns]
             \/ /\ weak = <<>>
                /\ weaknesses = <<>>
                /\ table_info = [lesson_attempts |-> columns, weaknesses |-> NoTable]
    /\ clock = MaxAttempts
    /\ inp = NoInput
    /\ call = NoCall

NextSchema == InitDb

\* MemoryRepository constructed, any number of times, over a database file
\* of any earlier schema
SpecSchema == InitSchema /\ [][NextSchema]_vars

NextReads ==
    \/ OrchGradeAnswer
    \/ StoreTeacherGenerateLesson
    \/ OrchGenerateLesson
    \/ OrchRecommendNextTopic
    \/ GetStatusSummary
    \/ GetHistory
    \/ GetTopicSummary
    \/ GetWeaknessCount
    \/ GetTopWeakTopic
    \/ GetLastAttemptTopic

\* answers graded by the TeacherOrchestrator, which saves the attempts and
\* raises the weakness counts, and between them the operations that read:
\* lessons, the next topic, and the queries of the MemoryRepository
SpecReads == Init /\ [][NextReads]_vars

-----------------------------------------------------------------------------
(* Properties.                                                             *)

\* the answer is empty or holds whitespace only
IsBlank(answer) == \A i \in 1..Len(answer) : IsSpace(Chr(answer, i))

HasRubric(topic) == Lower(topic) \in DOMAIN topic_keywords

\* the distinct rubric phrases of the topic that occur in the lower-cased answer
Matched(topic, answer) ==
    LET keywords == topic_keywords[Lower(topic)]
    IN  {kw \in {keywords[i] : i \in 1..Len(keywords)} : Contains(kw, Lower(answer))}

GraderReturned == call.op = "Examiner.grade_answer" /\ call.outcome = "returned"

\* C1: for a rubric topic and an answer that is not blank, Examiner.grade_answer
\* scores by the number of distinct rubric phrases found in the lower-cased
\* answer: 85 for two or more, 65 for exactly one, 35 for none.
C1_RubricScore ==
    (GraderReturned /\ HasRubric(call.topic) /\ ~IsBlank(call.answer)) =>
        LET n == Cardinality(Matched(call.topic, call.answer))
        IN  call.grade.score = IF n >= 2 THEN 85 ELSE IF n = 1 THEN 65 ELSE 35

\* a capitalised phrase, matched once: 65
C1_Witness ==
    /\ GraderReturned
    /\ call.topic = "tokens"
    /\ call.answer = "Truncation"
    /\ call.grade.score = 65

\* C2: for every topic, with a rubric or without, a blank answer gets a score
\* in [0,19] (so none of the rubric scores 35, 65, 85 nor the neutral 50) and
\* feedback that says the answer is empty.
C2_BlankAnswer ==
    (GraderReturned /\ IsBlank(call.answer)) =>
        /\ call.grade.score \in 0..19
        /\ Contains("empty", Lower(call.grade.feedback))

\* a whitespace-only answer on a rubric topic
C2_Witness ==
    /\ GraderReturned
    /\ call.topic = "rag"
    /\ call.answer = " \n\t "
    /\ call.grade.score = 10

\* C3 as amended: for a topic without a rubric and an answer that is not
\* blank, the score is exactly 50 and the feedback holds "not yet implemented".
C3_NoRubricNeutral ==
    (GraderReturned /\ ~HasRubric(call.topic) /\ ~IsBlank(call.answer)) =>
        /\ call.grade.score = 50
        /\ Contains("not yet implemented", call.grade.feedback)

C3_Witness ==
    /\ GraderReturned
    /\ call.topic = "math"
    /\ call.answer = "Some generic answer"
    /\ call.grade.score = 50

\* C3 as stated: for a topic without a rubric and every answer, blank ones
\* included, the score is exactly 50 with the "not yet implemented" marker.
C3_AsStated ==
    (GraderReturned /\ ~HasRubric(call.topic)) =>
        /\ call.grade.score = 50
        /\ Contains("not yet implemented", call.grade.feedback)

\* C4: two executions of Examiner.grade_answer on the same topic and answer
\* return the same Grade, whatever the service does in each of them.
C4_GradeReproducible ==
    [][(/\ GraderReturned
        /\ GraderReturned'
        /\ call'.topic = call.topic
        /\ call'.answer = call.answer) => call'.grade = call.grade]_vars

\* a well-formed reply whose score is not the deterministic one
C4_Witness ==
    /\ GraderReturned
    /\ call.llm_grade.present
    /\ call.llm_grade.score = JInt(88)
    /\ call.grade.score = 35

\* C5: Examiner.grade_answer never raises, whatever the service does, and
\* with no result from the service the augmented result is absent.
C5_NeverRaises ==
    call.op = "Examiner.grade_answer" =>
        /\ call.outcome = "returned"
        /\ generate("", call.net).kind = "none" => ~call.llm_grade.present

\* C6: Teacher.generate_lesson never raises and returns a Lesson, whatever
\* the topic, the store and the service.
C6_LessonAlways ==
    call.op = "Teacher.generate_lesson" =>
        /\ call.outcome = "returned"
        /\ call.lesson # NoLesson

\* C7: OllamaClient.generate never raises: it returns None or the value of
\* the response field.
C7_GenerateNeverRaises ==
    call.op = "OllamaClient.generate" => call.outcome = "returned"

\* C8: a step that adds an attempt (a TeacherOrchestrator.grade_answer call
\* with a store) adds 1 to the weakness count of the graded topic when the
\* score of the Grade is below 70 and leaves the table alone otherwise; the
\* counts of the other topics stay, and no other step changes the table.
C8_WeaknessIffLow ==
    [][IF lesson_attempts' # lesson_attempts
       THEN /\ call'.op = "TeacherOrchestrator.grade_answer"
            /\ get_weakness_count(weaknesses', call'.topic) =
                  get_weakness_count(weaknesses, call'.topic)
                  + (IF call'.grade.score < 70 THEN 1 ELSE 0)
            /\ call'.grade.score >= 70 => weaknesses' = weaknesses
            /\ \A u \in (DOMAIN weaknesses \cup DOMAIN weaknesses') \ {call'.topic} :
                  get_weakness_count(weaknesses', u) = get_weakness_count(weaknesses, u)
       ELSE weaknesses' = weaknesses]_vars

\* one topic graded 85 and then 35: its count is 1
C8_Witness ==
    /\ Len(lesson_attempts) = 2
    /\ lesson_attempts[1].topic = lesson_attempts[2].topic
    /\ lesson_attempts[1].score = 85
    /\ lesson_attempts[2].score = 35
    /\ get_weakness_count(weaknesses, lesson_attempts[2].topic) = 1

\* C9: TeacherOrchestrator.generate_lesson returns what Teacher.generate_lesson
\* returns, and TeacherOrchestrator.grade_answer returns the Grade that
\* Examiner.grade_answer returns, for the same arguments, store and service.
C9_PassThrough ==
    /\ call.op = "TeacherOrchestrator.grade_answer" =>
          LET g == Examiner_grade_answer(call.topic, call.answer, call.net)
          IN  g.outcome = "returned" => call.grade = g.grade
    /\ call.op = "TeacherOrchestrator.generate_lesson" =>
          LET l == Teacher_generate_lesson(call.topic, call.net, memory_repo, weaknesses)
          IN  l.outcome = "returned" => call.lesson = l.lesson

\* C10: after a TeacherOrchestrator.grade_answer call the last row of the
\* attempt log holds the topic, the answer, the score and feedback of the
\* Grade, and the augmented feedback and score the Examiner returns for that
\* call (NULL when it returns none); without a store the log stays empty.
C10_AttemptPersisted ==
    call.op = "TeacherOrchestrator.grade_answer" =>
        IF memory_repo = "None" THEN lesson_attempts = <<>>
        ELSE /\ Len(lesson_attempts) >= 1
             /\ LET row == lesson_attempts[Len(lesson_attempts)]
                    g == Examiner_grade_answer(call.topic, call.answer, call.net)
                IN  /\ row.topic = call.topic
                    /\ row.answer = call.answer
                    /\ row.score = call.grade.score
                    /\ row.feedback = call.grade.feedback
                    /\ g.llm_grade.present =>
                          /\ row.llm_feedback = JStr(g.llm_grade.feedback)
                          /\ row.llm_score = g.llm_grade.score
                    /\ ~g.llm_grade.present =>
                          /\ row.llm_feedback = JNull
                          /\ row.llm_score = JNull

\* C11: topic keys are lower-cased before every persistence and lookup: every
\* row of the attempt log and every weakness row is stored under a lower-case
\* key, no two weakness rows differ in letter case only, and the weakness
\* count read for a topic is the one read for its lower-cased form.
C11_TopicKeysLowercased ==
    /\ \A i \in 1..Len(lesson_attempts) :
          lesson_attempts[i].topic = Lower(lesson_attempts[i].topic)
    /\ \A t \in DOMAIN weaknesses : t = Lower(t)
    /\ \A t \in DOMAIN weaknesses, u \in DOMAIN weaknesses : Lower(t) = Lower(u) => t = u
    /\ \A t \in StoreTopics :
          get_weakness_count(weaknesses, t) = get_weakness_count(weaknesses, Lower(t))

\* "Tokens" and "tokens" both graded low: two weakness rows of count 1
C11_Witness ==
    /\ DOMAIN weaknesses = {"Tokens", "tokens"}
    /\ weaknesses["Tokens"] = 1
    /\ weaknesses["tokens"] = 1

Recommended == call.op = "TeacherOrchestrator.recommend_next_topic"

\* C12: with at least one weakness row, recommend_next_topic returns a topic
\* whose count no other row exceeds and that comes first, in ascending order
\* of topic name, among the rows of that count; it does not read the last
\* attempt.  {rag: 1, prompting: 1, tokens: 1} gives "prompting".
C12_TopWeakness ==
    (Recommended /\ memory_repo # "None" /\ DOMAIN weaknesses # {}) =>
        /\ call.outcome = "returned"
        /\ call.next_topic \in DOMAIN weaknesses
        /\ \A u \in DOMAIN weaknesses \ {call.next_topic} :
              \/ weaknesses[u] < weaknesses[call.next_topic]
              \/ /\ weaknesses[u] = weaknesses[call.next_topic]
                 /\ StrLess(call.next_topic, u)
        /\ \A i \in 1..Len(call.reads) : call.reads[i] # "get_last_attempt_topic"
        /\ (DOMAIN weaknesses = {"rag", "prompting", "tokens"}
            /\ \A u \in DOMAIN weaknesses : weaknesses[u] = 1) => call.next_topic = "prompting"

\* the three-way tie of the example, with a last attempt on "tokens"
C12_Witness ==
    /\ Recommended
    /\ DOMAIN weaknesses = {"rag", "prompting", "tokens"}
    /\ \A u \in DOMAIN weaknesses : weaknesses[u] = 1
    /\ Len(lesson_attempts) >= 1
    /\ lesson_attempts[Len(lesson_attempts)].topic = "tokens"
    /\ call.next_topic = "prompting"

\* the curriculum entry after a topic of the curriculum, the first after the last
CurriculumNext(topic) == Curriculum[(CurriculumIndex(topic) % Len(Curriculum)) + 1]

\* C13: with no weakness row and at least one attempt, when the topic of the
\* most recently created attempt (the last row of the log) is, lower-cased,
\* in the curriculum, recommend_next_topic returns the entry after it, the
\* first entry after the last ("tokens" gives "temperature", "agents" "tokens").
C13_NextInCurriculum ==
    (/\ Recommended
     /\ memory_repo # "None"
     /\ DOMAIN weaknesses = {}
     /\ Len(lesson_attempts) >= 1
     /\ CurriculumIndex(Lower(lesson_attempts[Len(lesson_attempts)].topic)) # 0) =>
        call.next_topic = CurriculumNext(Lower(lesson_attempts[Len(lesson_attempts)].topic))

\* "tokens" and then "Agents" saved within one reading of the clock: the
\* recommendation follows "tokens", not the attempt created last
C13_Witness ==
    /\ Recommended
    /\ DOMAIN weaknesses = {}
    /\ Len(lesson_attempts) = 2
    /\ lesson_attempts[1].topic = "tokens"
    /\ lesson_attempts[2].topic = "Agents"
    /\ lesson_attempts[1].created_at = lesson_attempts[2].created_at
    /\ call.next_topic = "temperature"

\* C14: recommend_next_topic returns "tokens", the first entry of the
\* curriculum, without raising, when there is no store, and when there is a
\* store with no weakness row and either no attempt or a most recently
\* created attempt whose topic is not in the curriculum.
C14_DefaultTopic ==
    (/\ Recommended
     /\ \/ memory_repo = "None"
        \/ /\ DOMAIN weaknesses = {}
           /\ \/ lesson_attempts = <<>>
              \/ CurriculumIndex(Lower(lesson_attempts[Len(lesson_attempts)].topic)) = 0) =>
        /\ call.outcome = "returned"
        /\ call.next_topic = "tokens"
        /\ Curriculum[1] = "tokens"

\* "tokens" and then "math" saved within one reading of the clock: the
\* recommendation follows "tokens" although the last attempt is on "math"
C14_Witness ==
    /\ Recommended
    /\ DOMAIN weaknesses = {}
    /\ Len(lesson_attempts) = 2
    /\ lesson_attempts[1].topic = "tokens"
    /\ lesson_attempts[2].topic = "math"
    /\ lesson_attempts[1].created_at = lesson_attempts[2].created_at
    /\ call.next_topic = "temperature"

TeacherCalled == call.op = "Teacher.generate_lesson"

TeacherReturned == TeacherCalled /\ call.outcome = "returned"

IsSeed(topic) == Lower(topic) \in DOMAIN Teacher_lessons

\* the request of the call gave no usable lesson: no reply, or a reply that
\* is not a JSON object with the five text fields
NoUsableLesson ==
    parse_lesson(generate(lesson_prompt(call.topic), call.net), call.topic).kind = "none"

\* the weakness count the store holds for the topic of the call, 0 without
\* a store or a row
StoredCount ==
    IF memory_repo # "None" /\ call.topic \in DOMAIN weaknesses
    THEN weaknesses[call.topic] ELSE 0

\* the tiers a Lesson is tagged with
Tiers(lesson) ==
    {t \in {"Beginner", "Intermediate", "Advanced"} :
        StartsAt(lesson.explanation, 1, "[" \o t \o "]")}

\* C15: when the request gives no usable lesson for a topic that is no seed,
\* the Lesson returned carries exactly one tier, chosen by the weakness count
\* of the topic in the store (0 without a store or a row): Beginner for a
\* count of at most 1, Intermediate for 2 or 3, Advanced for 4 or more.
C15_FallbackTier ==
    (TeacherReturned /\ ~IsSeed(call.topic) /\ NoUsableLesson) =>
        Tiers(call.lesson) = {IF StoredCount <= 1 THEN "Beginner"
                              ELSE IF StoredCount <= 3 THEN "Intermediate"
                              ELSE "Advanced"}

\* three low attempts on "rag" and a service that is down: Intermediate
C15_Witness ==
    /\ TeacherReturned
    /\ call.topic = "rag"
    /\ call.net.k = "URLError"
    /\ StoredCount = 3
    /\ Tiers(call.lesson) = {"Intermediate"}

\* C16: for every topic string the explanations of the three tiers built for
\* it are strictly ordered by length: Beginner < Intermediate < Advanced.
C16_LengthsOrdered ==
    TeacherCalled =>
        \A b \in 0..1, i \in 2..3, a \in 4..MaxWeakness :
            /\ Len(build_fallback_lesson(call.topic, b).explanation)
                  < Len(build_fallback_lesson(call.topic, i).explanation)
            /\ Len(build_fallback_lesson(call.topic, i).explanation)
                  < Len(build_fallback_lesson(call.topic, a).explanation)

\* an Advanced fallback returned for the longest topic, longer than the
\* Intermediate one for it
C16_Witness ==
    /\ TeacherReturned
    /\ call.topic = "hallucinations"
    /\ NoUsableLesson
    /\ Tiers(call.lesson) = {"Advanced"}
    /\ Len(call.lesson.explanation)
          > Len(build_fallback_lesson(call.topic, 2).explanation)

\* replies to the lesson prompt that hold a well-formed lesson, bare and fenced
WellFormedLessonReplies ==
    {Reply(JsonDumps(LessonDoc)),
     Reply(Fence \o "json\n" \o JsonDumps(LessonDoc) \o "\n" \o Fence)}

\* C17: generate_lesson on a seed topic (in any letter case) returns the
\* authored lesson, sends no request and reads nothing from the store; on
\* any other topic it sends exactly one request; a well-formed reply is
\* returned with its four content fields as received, untiered, the store
\* unread; the weakness count is read, and a tiered fallback built, only
\* when that request gave no usable lesson.
C17_PriorityOrder ==
    TeacherCalled =>
        /\ IsSeed(call.topic) =>
              /\ call.outcome = "returned"
              /\ call.lesson = Teacher_lessons[Lower(call.topic)]
              /\ call.prompts = <<>>
              /\ call.reads = <<>>
        /\ ~IsSeed(call.topic) =>
              /\ call.prompts = <<lesson_prompt(call.topic)>>
              /\ call.net \in WellFormedLessonReplies =>
                    /\ call.outcome = "returned"
                    /\ call.lesson.explanation = Field(LessonDoc, "explanation").s
                    /\ call.lesson.example = Field(LessonDoc, "example").s
                    /\ call.lesson.question = Field(LessonDoc, "question").s
                    /\ call.lesson.task = Field(LessonDoc, "task").s
                    /\ Tiers(call.lesson) = {}
                    /\ call.reads = <<>>
              /\ call.reads # <<>> => NoUsableLesson
              /\ Tiers(call.lesson) # {} => NoUsableLesson
              /\ (NoUsableLesson /\ memory_repo # "None") =>
                    call.reads = <<"get_weakness_count">>

\* a store with four low attempts on "rag" and a well-formed fenced reply:
\* one request, the reply returned, the store unread
C17_Witness ==
    /\ TeacherReturned
    /\ call.topic = "rag"
    /\ memory_repo = "repo"
    /\ StoredCount = 4
    /\ call.net = Reply(Fence \o "json\n" \o JsonDumps(LessonDoc) \o "\n" \o Fence)
    /\ Len(call.prompts) = 1
    /\ call.reads = <<>>
    /\ call.lesson.explanation = "Why."

\* C18: the topic of the Lesson generate_lesson returns is "tokens" when the
\* requested topic is a seed topic in any letter case, and the requested
\* topic as given otherwise, for a Lesson made from a reply (whatever topic
\* the reply names) and for a fallback Lesson.
C18_LessonTopic ==
    TeacherReturned =>
        call.lesson.topic = IF Lower(call.topic) = "tokens" THEN "tokens" ELSE call.topic

\* "RAG" requested, the reply names "llm": the Lesson is on "RAG"
C18_Witness ==
    /\ TeacherReturned
    /\ call.topic = "RAG"
    /\ call.net = Reply(JsonDumps(LessonDoc))
    /\ Field(LessonDoc, "topic").s = "llm"
    /\ call.lesson.topic = "RAG"

\* C19: the attempt log is append-only: every step keeps the rows it finds,
\* in place and with every column unchanged, and each row it adds has an id
\* strictly greater than the id of every row stored before it.
C19_AppendOnly ==
    [][/\ Len(lesson_attempts') >= Len(lesson_attempts)
       /\ SubSeq(lesson_attempts', 1, Len(lesson_attempts)) = lesson_attempts
       /\ \A i \in (Len(lesson_attempts) + 1)..Len(lesson_attempts') :
             \A j \in 1..(i - 1) : lesson_attempts'[j].id < lesson_attempts'[i].id]_vars

\* two attempts stored, the second under the greater id
C19_Witness ==
    /\ call.op = "TeacherOrchestrator.grade_answer"
    /\ Len(lesson_attempts) = 2
    /\ lesson_attempts[1].id < lesson_attempts[2].id

\* C20: every weakness row has a count of at least 1 (the table holds one
\* row per topic key); no step lowers a count or removes a row; and
\* increment_weakness creates the row of its topic with count 1 when there
\* is none, adds exactly 1 to it otherwise, and leaves the other rows alone.
C20_WeaknessCounts ==
    /\ [](\A t \in DOMAIN weaknesses : weaknesses[t] >= 1)
    /\ [][/\ \A t \in DOMAIN weaknesses :
                t \in DOMAIN weaknesses' /\ weaknesses'[t] >= weaknesses[t]
          /\ call'.op = "MemoryRepository.increment_weakness" =>
                /\ call'.topic \in DOMAIN weaknesses'
                /\ weaknesses'[call'.topic] =
                      IF call'.topic \in DOMAIN weaknesses
                      THEN weaknesses[call'.topic] + 1 ELSE 1
                /\ DOMAIN weaknesses' = DOMAIN weaknesses \cup {call'.topic}
                /\ \A t \in DOMAIN weaknesses \ {call'.topic} :
                      weaknesses'[t] = weaknesses[t]]_vars

\* "rag" incremented twice beside a row for "tokens"
C20_Witness ==
    /\ call.op = "MemoryRepository.increment_weakness"
    /\ call.topic = "rag"
    /\ DOMAIN weaknesses = {"rag", "tokens"}
    /\ weaknesses["rag"] = 2
    /\ weaknesses["tokens"] = 1

\* C21: an attempt saved with augmented feedback None and augmented score
\* None holds NULL in both columns, and one saved with feedback f and score s
\* holds exactly f and s; get_last_attempt_llm_feedback, read after it, gives
\* back the augmented feedback of the attempt saved last, None for None and f
\* for f.
C21_AugmentedRoundTrip ==
    /\ (call.op = "MemoryRepository.save_attempt") =>
          /\ lesson_attempts[Len(lesson_attempts)].llm_feedback = call.llm_feedback
          /\ lesson_attempts[Len(lesson_attempts)].llm_score = call.llm_score
    /\ (call.op = "MemoryRepository.get_last_attempt_llm_feedback" /\ lesson_attempts # <<>>) =>
          call.result = lesson_attempts[Len(lesson_attempts)].llm_feedback

\* one attempt, saved with the empty text for augmented feedback, read back
\* as None
C21_Witness ==
    /\ call.op = "MemoryRepository.get_last_attempt_llm_feedback"
    /\ Len(lesson_attempts) = 1
    /\ lesson_attempts[1].llm_feedback = JStr("")
    /\ lesson_attempts[1].llm_score = JInt(0)
    /\ call.result = JNull

\* the row of the log that is k-th in the order created_at descending, id
\* descending
HistoryRank(k) ==
    CHOOSE i \in 1..Len(lesson_attempts) :
        Cardinality({j \in 1..Len(lesson_attempts) :
            \/ lesson_attempts[j].created_at > lesson_attempts[i].created_at
            \/ /\ lesson_attempts[j].created_at = lesson_attempts[i].created_at
               /\ lesson_attempts[j].id > lesson_attempts[i].id}) = k - 1

\* C24: get_history(limit), limit >= 0, over a log of N attempts returns
\* min(limit, N) entries, the k-th made of the attempt that is k-th by
\* created_at descending and, among equal created_at, id descending; over an
\* empty log it returns the empty list.
C24_History ==
    (call.op = "MemoryRepository.get_history") =>
        /\ Len(call.result) = IF call.limit < Len(lesson_attempts)
                              THEN call.limit ELSE Len(lesson_attempts)
        /\ \A k \in 1..Len(call.result) :
              /\ call.result[k].topic = lesson_attempts[HistoryRank(k)].topic
              /\ call.result[k].score = lesson_attempts[HistoryRank(k)].score
              /\ call.result[k].created_at = lesson_attempts[HistoryRank(k)].created_at
              /\ call.result[k].has_llm_feedback =
                    (/\ lesson_attempts[HistoryRank(k)].llm_feedback # JNull
                     /\ Strip(lesson_attempts[HistoryRank(k)].llm_feedback.s) # "")
        /\ lesson_attempts = <<>> => call.result = <<>>

\* two attempts of one created_at, on "tokens" and then on "rag", and a limit
\* of 1: the entry is the "rag" attempt
C24_Witness ==
    /\ call.op = "MemoryRepository.get_history"
    /\ call.limit = 1
    /\ Len(lesson_attempts) = 2
    /\ lesson_attempts[1].created_at = lesson_attempts[2].created_at
    /\ lesson_attempts[1].topic = "tokens"
    /\ lesson_attempts[2].topic = "rag"
    /\ Len(call.result) = 1
    /\ call.result[1].topic = "rag"
    /\ call.result[1].has_llm_feedback

\* C27: get_last_attempt_topic returns the topic of the attempt of the
\* greatest id, equal created_at values included, which is the topic of the
\* first entry of get_history; it returns None over an empty log.
C27_LastAttemptTopic ==
    (call.op = "MemoryRepository.get_last_attempt_topic") =>
        IF lesson_attempts = <<>> THEN call.result = JNull
        ELSE /\ call.result = JStr(lesson_attempts[Len(lesson_attempts)].topic)
             /\ call.result = JStr(get_history(lesson_attempts, 1)[1].topic)

\* "tokens" and then "rag" saved within one reading of the clock: the topic
\* returned is "tokens"
C27_Witness ==
    /\ call.op = "MemoryRepository.get_last_attempt_topic"
    /\ Len(lesson_attempts) = 2
    /\ lesson_attempts[1].created_at = lesson_attempts[2].created_at
    /\ lesson_attempts[1].topic = "tokens"
    /\ lesson_attempts[2].topic = "rag"
    /\ call.result = JStr("tokens")

\* C23: get_status_summary reports total_attempts equal to the number of
\* attempts stored, average_score equal to the sum of their scores divided by
\* that number (0.0 over none), and weakest_topics holding min(5, rows)
\* distinct (topic, count) rows of the weaknesses table, at most 5, in
\* non-increasing order of count, no row left out having a higher count than
\* a row listed.
C23_StatusSummary ==
    (call.op = "MemoryRepository.get_status_summary") =>
        LET r == call.result
            w == r.weakest_topics
            listed == {w[k][1] : k \in 1..Len(w)}
        IN  /\ r.total_attempts = Len(lesson_attempts)
            /\ r.average_score.den > 0
            /\ r.average_score.num * (IF lesson_attempts = <<>> THEN 1 ELSE Len(lesson_attempts))
                  = SumScores(lesson_attempts) * r.average_score.den
            /\ Len(w) <= 5
            /\ Len(w) = Cardinality(listed)
            /\ Len(w) = IF Cardinality(DOMAIN weaknesses) < 5
                        THEN Cardinality(DOMAIN weaknesses) ELSE 5
            /\ \A k \in 1..Len(w) : w[k][1] \in DOMAIN weaknesses /\ w[k][2] = weaknesses[w[k][1]]
            /\ \A k \in 1..(Len(w) - 1) : w[k][2] >= w[k + 1][2]
            /\ \A t \in DOMAIN weaknesses \ listed : \A k \in 1..Len(w) : weaknesses[t] <= w[k][2]

\* attempts of 35 and 80 (average 57.5) and six weak topics, "tokens" counted
\* twice: five are listed, "tokens" first, "agents" left out
C23_Witness ==
    /\ call.op = "MemoryRepository.get_status_summary"
    /\ Len(lesson_attempts) = 2
    /\ call.result.average_score = [num |-> 115, den |-> 2]
    /\ Cardinality(DOMAIN weaknesses) = 6
    /\ Len(call.result.weakest_topics) = 5
    /\ call.result.weakest_topics[1] = <<"tokens", 2>>
    /\ \A k \in 1..5 : call.result.weakest_topics[k][1] # "agents"

\* C25: after any sequence of TeacherOrchestrator.grade_answer calls every
\* row of the attempt log holds a score in [0,100], one of 10, 35, 50, 65, 85.
C25_ScoreRange ==
    \A i \in 1..Len(lesson_attempts) :
        /\ lesson_attempts[i].score \in 0..100
        /\ lesson_attempts[i].score \in {10, 35, 50, 65, 85}

\* a high and a low score stored
C25_Witness ==
    /\ call.op = "TeacherOrchestrator.grade_answer"
    /\ Len(lesson_attempts) = 2
    /\ lesson_attempts[1].score = 85
    /\ lesson_attempts[2].score = 35

\* where the answer starts in the grading prompt of the call
AnswerAt ==
    Len("Grade this answer on '") + Len(call.topic)
    + Len("' for an experienced engineer learning LLM systems.\n\n") + 1

\* C26: every Examiner.grade_answer call, on an empty answer, an unknown
\* topic or a rubric topic, sends exactly one request, and its prompt names
\* the topic, the answer as given, and the score and feedback of the
\* deterministic Grade of the call.
C26_OneGradingRequest ==
    (call.op = "Examiner.grade_answer") =>
        /\ Len(call.prompts) = 1
        /\ StartsAt(call.prompts[1], 1, "Grade this answer on '" \o call.topic \o "'")
        /\ StartsAt(call.prompts[1], AnswerAt,
                    "Student answer: \"" \o call.answer \o "\"\n\n"
                    \o "Deterministic grade: " \o IntToStr(call.grade.score) \o "/100\n"
                    \o "Deterministic feedback: " \o call.grade.feedback \o "\n")
        /\ call.grade.score \in {10, 35, 50, 65, 85}

\* a whitespace-only answer: one request, which carries the score 10
C26_Witness ==
    /\ call.op = "Examiner.grade_answer"
    /\ call.topic = "rag"
    /\ call.answer = " \n\t "
    /\ Len(call.prompts) = 1
    /\ Contains("Deterministic grade: 10/100", call.prompts[1])

\* C28: the augmented result Examiner.grade_answer returns, and the augmented
\* score stored with an attempt, has a score that is absent or an integer in
\* [0,100], whatever score the reply holds.
C28_AugmentedScoreRange ==
    /\ (call.op = "Examiner.grade_answer" /\ call.llm_grade.present) =>
          \/ call.llm_grade.score = JNull
          \/ call.llm_grade.score.t = "int" /\ call.llm_grade.score.n \in 0..100
    /\ \A i \in 1..Len(lesson_attempts) :
          \/ lesson_attempts[i].llm_score = JNull
          \/ /\ lesson_attempts[i].llm_score.t = "int"
             /\ lesson_attempts[i].llm_score.n \in 0..100

\* a reply with the score 150, returned as the augmented score
C28_Witness ==
    /\ call.op = "Examiner.grade_answer"
    /\ call.outcome = "returned"
    /\ call.llm_grade.present
    /\ call.llm_grade.feedback = "Off."
    /\ call.llm_grade.score = JInt(150)

\* the attempts of the log on a topic that scored below 70
LowAttemptsOn(topic) ==
    {i \in 1..Len(lesson_attempts) :
        lesson_attempts[i].topic = topic /\ lesson_attempts[i].score < 70}

\* C30: after any sequence of TeacherOrchestrator.grade_answer calls on an
\* empty store, the weakness count of every topic key is the number of
\* stored attempts on that topic that scored below 70, and a topic has a
\* weakness row exactly when it has such an attempt.
C30_WeaknessIsLowCount ==
    \A t \in DOMAIN weaknesses \cup {lesson_attempts[i].topic : i \in 1..Len(lesson_attempts)} :
        /\ get_weakness_count(weaknesses, t) = Cardinality(LowAttemptsOn(t))
        /\ t \in DOMAIN weaknesses <=> LowAttemptsOn(t) # {}

\* "tokens" graded low twice and never high: a count of 2
C30_Witness ==
    /\ call.op = "TeacherOrchestrator.grade_answer"
    /\ Cardinality(LowAttemptsOn("tokens")) = 2
    /\ weaknesses["tokens"] = 2

\* the llm columns
LlmColumns == {"llm_feedback", "llm_score"}

\* the tables of the database file
Store == <<table_info, lesson_attempts, weaknesses>>

\* C22: init_db run on a database file of any earlier schema leaves
\* lesson_attempts with the columns it had, in their order, and both llm
\* columns, and leaves weaknesses in place; every row of lesson_attempts is
\* still there with the values it had and NULL in the columns added; every
\* weaknesses row is unchanged; and init_db run again, or on a file that
\* already has both tables and both columns, changes nothing.
C22_InitDb ==
    [][(call'.op = "init_db") =>
          /\ Take(table_info'.lesson_attempts, Len(table_info.lesson_attempts))
                = table_info.lesson_attempts
          /\ \A c \in LlmColumns : InList(c, table_info'.lesson_attempts)
          /\ Len(table_info'.lesson_attempts) = Len(LessonAttemptsColumns)
          /\ table_info'.weaknesses = WeaknessesColumns
          /\ Len(lesson_attempts') = Len(lesson_attempts)
          /\ \A i \in 1..Len(lesson_attempts) :
                /\ DOMAIN lesson_attempts'[i]
                      = {LessonAttemptsColumns[k] : k \in 1..Len(LessonAttemptsColumns)}
                /\ \A c \in DOMAIN lesson_attempts[i] :
                      lesson_attempts'[i][c] = lesson_attempts[i][c]
                /\ \A c \in LlmColumns \ DOMAIN lesson_attempts[i] :
                      lesson_attempts'[i][c] = JNull
          /\ weaknesses' = weaknesses
          /\ (call.op = "init_db") => UNCHANGED Store
          /\ (/\ table_info.weaknesses # NoTable
              /\ \A c \in LlmColumns : InList(c, table_info.lesson_attempts))
                => UNCHANGED Store
    ]_vars

\* init_db has found a table lesson_attempts without the llm columns that
\* held two rows, and weaknesses rows: the columns are added, the rows kept
C22_Witness ==
    /\ call.op = "init_db"
    /\ call.result = OldColumns
    /\ table_info.lesson_attempts = LessonAttemptsColumns
    /\ Len(lesson_attempts) = 2
    /\ lesson_attempts[2].topic = "rag"
    /\ lesson_attempts[2].score = 35
    /\ lesson_attempts[2].llm_feedback = JNull
    /\ lesson_attempts[2].llm_score = JNull
    /\ weaknesses = ("tokens" :> 2) @@ ("rag" :> 1)

\* the operations that read
ReadOps ==
    {"Teacher.generate_lesson", "TeacherOrchestrator.generate_lesson",
     "TeacherOrchestrator.recommend_next_topic",
     "MemoryRepository.get_status_summary", "MemoryRepository.get_history",
     "MemoryRepository.get_topic_summary", "MemoryRepository.get_weakness_count",
     "MemoryRepository.get_top_weak_topic", "MemoryRepository.get_last_attempt_topic"}

\* C29: generate_lesson, recommend_next_topic, get_status_summary,
\* get_history, get_topic_summary, get_weakness_count, get_top_weak_topic and
\* get_last_attempt_topic leave every row of lesson_attempts and of
\* weaknesses as it was, on every path; the Lesson a call returns is written
\* to neither table.
C29_ReadsWriteNothing ==
    [][(call'.op \in ReadOps) =>
          /\ lesson_attempts' = lesson_attempts
          /\ weaknesses' = weaknesses
          /\ table_info' = table_info]_vars

\* the Teacher has built a fallback lesson from the weakness count it read,
\* over a store that holds two attempts and a weakness row
C29_Witness ==
    /\ call.op = "Teacher.generate_lesson"
    /\ call.topic = "rag"
    /\ call.outcome = "returned"
    /\ call.reads = <<"get_weakness_count">>
    /\ call.lesson = build_fallback_lesson("rag", 2)
    /\ Len(lesson_attempts) = 2
    /\ weaknesses = "rag" :> 2

=============================================================================
